---- MODULE Spec2Model ----
(***************************************************************************)
(* Authorization core of NextExplorer: path rules, the access decision     *)
(* engine (accessManager.js), the rule resolver (accessControlService) and *)
(* the access-filtered directory listing (directoryListingService).        *)
(*                                                                         *)
(* Paths are sequences of segments: the string 'd/s' is <<"d", "s">>; a    *)
(* raw path with a doubled or leading separator carries "" segments.       *)
(* A JavaScript null is the matching No... value of each type.             *)
(***************************************************************************)
EXTENDS Integers, Sequences, FiniteSets, TLC

VARIABLES
    rules,          \* system_settings row system/access: the stored rule list
    shares,         \* share store: token -> share record
    userVolumes,    \* user-volume store: volume id -> user-volume record
    now,            \* the clock isShareExpired reads
    featureUserVolumes, \* features.userVolumes (USER_VOLUMES)
    last,           \* the response being returned, with the request's inputs
    writableAtCreate, \* history: token -> the share granted write when created
    authMethods,    \* auth_methods rows local_password: user id -> password_hash
    authLocks,      \* auth_locks: the emails whose account is locked
    userSettings,   \* user_settings rows: user id -> key -> stored value
    systemSettings, \* system_settings rows other than system/access
    fsEntries       \* the absolute paths that exist on the filesystem

\* the stores only the auth, settings and file-mutating routes touch
routeStores == <<authMethods, authLocks, userSettings, systemSettings, fsEntries>>

vars ==
    <<rules, shares, userVolumes, now, featureUserVolumes, last, writableAtCreate,
      routeStores>>

-----------------------------------------------------------------------------
(* Bounds *)

MaxRules == 1       \* longest rule list an administrator stores
MaxNow == 1         \* the clock runs 0..MaxNow
MaxRuleList == 2    \* longest rule list handed to the resolver directly

-----------------------------------------------------------------------------
(* Values *)

Permissions == {"rw", "ro", "hidden"}

NoUser == [id |-> "", roles |-> {}]
alice == [id |-> "alice", roles |-> {"user"}]
bob == [id |-> "bob", roles |-> {"user"}]
root == [id |-> "root", roles |-> {"admin", "user"}]
Users == {alice, bob, root}

NoGuest == [shareId |-> ""]
GuestSessions == {[shareId |-> "s1"], [shareId |-> "s2"]}

Contexts == [user : Users \cup {NoUser}, guestSession : GuestSessions \cup {NoGuest}]

Tokens == {"t1"}
VolumeIds == {"vol1"}

NoVolume == [id |-> "", userId |-> "", label |-> "", accessMode |-> ""]
NoShare ==
    [id |-> "", shareToken |-> "", ownerId |-> "", sourceSpace |-> "",
     sourcePath |-> <<>>, isDirectory |-> FALSE, sharingType |-> "",
     accessMode |-> "", expiresAt |-> {}, label |-> ""]
NoShareInfo ==
    [shareId |-> "", shareToken |-> "", accessMode |-> "", expiresAt |-> {},
     isOwner |-> FALSE, label |-> ""]

Null == "null"

\* JavaScript truthiness of context.user, user.id and context.guestSession
HasUser(context) == context.user # NoUser /\ context.user.id # ""
HasGuest(context) == context.guestSession # NoGuest

-----------------------------------------------------------------------------
(* utils/pathUtils.js *)

normalizeRelativePath(p) == SelectSeq(p, LAMBDA seg : seg \notin {"", "."})

\* normalizeRelativePath throws on a path traversal attempt
IsTraversal(p) == \E i \in 1..Len(p) : p[i] = ".."

combineRelativePath(a, b) == normalizeRelativePath(a \o b)

\* String(p || '').split('/').filter(Boolean)
splitSegments(p) == SelectSeq(p, LAMBDA seg : seg # "")

parsePathSpace(relativePath) ==
    LET rel == normalizeRelativePath(relativePath)
        first == IF Len(rel) > 0 THEN rel[1] ELSE ""
    IN  IF first = "personal"
        THEN [space |-> "personal", rel |-> rel, shareToken |-> "",
              innerPath |-> SubSeq(rel, 2, Len(rel))]
        ELSE IF first = "share"
        THEN [space |-> "share", rel |-> rel,
              shareToken |-> IF Len(rel) > 1 THEN rel[2] ELSE "",
              innerPath |-> SubSeq(rel, 3, Len(rel))]
        ELSE [space |-> "volume", rel |-> rel, shareToken |-> "",
              innerPath |-> <<>>]

-----------------------------------------------------------------------------
(* services/settingsService.js and services/accessControlService.js *)

sanitizeRule(rule) ==
    [path |-> normalizeRelativePath(rule.path),
     recursive |-> rule.recursive,
     permissions |-> IF rule.permissions \in Permissions
                     THEN rule.permissions ELSE "rw"]

sanitizeAccessRules(rawRules) ==
    LET kept == SelectSeq(rawRules,
                    LAMBDA rule : ~IsTraversal(rule.path)
                                  /\ normalizeRelativePath(rule.path) # <<>>)
    IN  [i \in 1..Len(kept) |-> sanitizeRule(kept[i])]

\* the characters of a segment name; a name not spelled out is one symbol
Chars(seg) ==
    CASE seg = "bc" -> <<"b", "c">>
      [] seg = "d.txt" -> <<"d", ".", "t", "x", "t">>
      [] OTHER -> <<seg>>

\* a normalized path as the string normalizeRelativePath returns: 'a/b/c'
RECURSIVE joinPath(_)
joinPath(segs) ==
    IF segs = <<>> THEN <<>>
    ELSE IF Len(segs) = 1 THEN Chars(segs[1])
    ELSE Chars(Head(segs)) \o <<"/">> \o joinPath(Tail(segs))

\* String.prototype.startsWith
StartsWith(str, prefix) ==
    /\ Len(str) >= Len(prefix)
    /\ SubSeq(str, 1, Len(prefix)) = prefix

\* mutant: the prefix test without the separator
StartsWithDir_rawPrefix(rel, rulePath) ==
    StartsWith(joinPath(rel), joinPath(rulePath))

\* rel.startsWith(rulePath + '/') on normalized paths
StartsWithDir(rel, rulePath) ==
    StartsWith(joinPath(rel), joinPath(rulePath) \o <<"/">>)

RuleMatches(rule, rel) ==
    LET rulePath == normalizeRelativePath(rule.path)
    IN  /\ rulePath # <<>>
        /\ IF rule.recursive
           THEN rel = rulePath \/ StartsWithDir(rel, rulePath)
           ELSE rel = rulePath

\* mutant: the last matching rule wins
FirstMatch_lastWins(ruleList, rel, i) ==
    LET matching == {j \in i..Len(ruleList) : RuleMatches(ruleList[j], rel)}
    IN  IF matching = {} THEN "rw"
        ELSE ruleList[CHOOSE j \in matching : \A k \in matching : k <= j].permissions

RECURSIVE FirstMatch(_, _, _)
FirstMatch(ruleList, rel, i) ==
    IF i > Len(ruleList) THEN "rw"
    ELSE IF RuleMatches(ruleList[i], rel) THEN ruleList[i].permissions
    ELSE FirstMatch(ruleList, rel, i + 1)

\* createPermissionResolver(rules)(relativePath)
createPermissionResolver(ruleList, relativePath) ==
    FirstMatch(ruleList, normalizeRelativePath(relativePath), 1)

\* getSettings().access.rules as getSystemSettings returns it
getRules(storedRules) == sanitizeAccessRules(storedRules)

getPermissionForPath(storedRules, relativePath) ==
    createPermissionResolver(getRules(storedRules), relativePath)

-----------------------------------------------------------------------------
(* Collaborators: services/sharesService.js, services/userVolumesService.js *)

\* the stores and configuration a call reads
World ==
    [rules |-> rules, shares |-> shares, userVolumes |-> userVolumes,
     now |-> now, featureUserVolumes |-> featureUserVolumes]

\* options = {} : no resolver, no caches
NoOptions ==
    [hasResolver |-> FALSE, resolverRules |-> <<>>,
     hasShareCache |-> FALSE, shareCache |-> [t \in Tokens |-> NoShare],
     hasUserVolumeCache |-> FALSE,
     userVolumeCache |-> [v \in VolumeIds |-> NoVolume]]

getShareByToken(st, shareToken) ==
    IF shareToken \in DOMAIN st.shares THEN st.shares[shareToken] ELSE NoShare

\* explicit per-user grants of sharingType = users shares
SharePermissions == {<<"s1", "bob">>}

hasUserPermission(shareId, userId) == <<shareId, userId>> \in SharePermissions

isShareExpired(st, share) == \E t \in share.expiresAt : st.now >= t

getVolumeById(st, volumeId) ==
    IF volumeId \in DOMAIN st.userVolumes THEN st.userVolumes[volumeId] ELSE NoVolume

\* the volume assigned to the user whose label is the path's first segment
getUserVolumeForPath(st, userId, relativePath) ==
    LET label == IF Len(relativePath) > 0 THEN relativePath[1] ELSE ""
        mine == {v \in DOMAIN st.userVolumes :
                    /\ st.userVolumes[v] # NoVolume
                    /\ st.userVolumes[v].userId = userId
                    /\ st.userVolumes[v].label = label}
    IN  IF mine = {} THEN NoVolume ELSE st.userVolumes[CHOOSE v \in mine : TRUE]

-----------------------------------------------------------------------------
(* services/accessManager.js *)

\* mutant: a denial that leaves the download capability on
createDeniedAccess_keepsDownload(reason) ==
    [canAccess |-> FALSE, canRead |-> FALSE, canWrite |-> FALSE,
     canDelete |-> FALSE, canUpload |-> FALSE, canCreateFolder |-> FALSE,
     canShare |-> FALSE, canDownload |-> TRUE, isShared |-> FALSE,
     shareInfo |-> NoShareInfo, userVolume |-> NoVolume, share |-> NoShare,
     effectivePermission |-> "hidden", denialReason |-> reason]

createDeniedAccess(reason) ==
    [canAccess |-> FALSE, canRead |-> FALSE, canWrite |-> FALSE,
     canDelete |-> FALSE, canUpload |-> FALSE, canCreateFolder |-> FALSE,
     canShare |-> FALSE, canDownload |-> FALSE, isShared |-> FALSE,
     shareInfo |-> NoShareInfo, userVolume |-> NoVolume, share |-> NoShare,
     effectivePermission |-> "hidden", denialReason |-> reason]

\* const getPerm = (p) => permissionResolver ? permissionResolver(p) : getPermissionForPath(p)
getPerm(options, st, p) ==
    IF options.hasResolver
    THEN createPermissionResolver(options.resolverRules, p)
    ELSE getPermissionForPath(st.rules, p)

isAdminUser(user) == "admin" \in user.roles

\* mutant: only the volume's access mode makes the path read-only
userVolumeAccess_ignoresRo(userVolume, permission) ==
    IF userVolume = NoVolume
    THEN createDeniedAccess("You do not have access to this volume")
    ELSE IF permission = "hidden"
    THEN createDeniedAccess("Path is hidden")
    ELSE LET effectiveReadOnly == userVolume.accessMode = "readonly"
         IN  [canAccess |-> TRUE, canRead |-> TRUE,
              canWrite |-> ~effectiveReadOnly, canDelete |-> ~effectiveReadOnly,
              canUpload |-> ~effectiveReadOnly,
              canCreateFolder |-> ~effectiveReadOnly,
              canShare |-> TRUE, canDownload |-> TRUE, isShared |-> FALSE,
              shareInfo |-> NoShareInfo, userVolume |-> userVolume,
              share |-> NoShare,
              effectivePermission |-> IF effectiveReadOnly THEN "ro" ELSE "rw",
              denialReason |-> Null]

\* mutant: only the path rule makes the path read-only
userVolumeAccess_ignoresAccessMode(userVolume, permission) ==
    IF userVolume = NoVolume
    THEN createDeniedAccess("You do not have access to this volume")
    ELSE IF permission = "hidden"
    THEN createDeniedAccess("Path is hidden")
    ELSE LET effectiveReadOnly == permission = "ro"
         IN  [canAccess |-> TRUE, canRead |-> TRUE,
              canWrite |-> ~effectiveReadOnly, canDelete |-> ~effectiveReadOnly,
              canUpload |-> ~effectiveReadOnly,
              canCreateFolder |-> ~effectiveReadOnly,
              canShare |-> TRUE, canDownload |-> TRUE, isShared |-> FALSE,
              shareInfo |-> NoShareInfo, userVolume |-> userVolume,
              share |-> NoShare,
              effectivePermission |-> IF effectiveReadOnly THEN "ro" ELSE "rw",
              denialReason |-> Null]

\* the block under `if (features.userVolumes && !isAdmin)`
userVolumeAccess(userVolume, permission) ==
    IF userVolume = NoVolume
    THEN createDeniedAccess("You do not have access to this volume")
    ELSE IF permission = "hidden"
    THEN createDeniedAccess("Path is hidden")
    ELSE LET isReadOnly == userVolume.accessMode = "readonly"
             effectiveReadOnly == isReadOnly \/ permission = "ro"
         IN  [canAccess |-> TRUE, canRead |-> TRUE,
              canWrite |-> ~effectiveReadOnly, canDelete |-> ~effectiveReadOnly,
              canUpload |-> ~effectiveReadOnly,
              canCreateFolder |-> ~effectiveReadOnly,
              canShare |-> TRUE, canDownload |-> TRUE, isShared |-> FALSE,
              shareInfo |-> NoShareInfo, userVolume |-> userVolume,
              share |-> NoShare,
              effectivePermission |-> IF effectiveReadOnly THEN "ro" ELSE "rw",
              denialReason |-> Null]

\* the object the standard block returns; canWrite is `!isReadOnly || isAdmin`
standardGranted(permission, canWrite) ==
    [canAccess |-> TRUE, canRead |-> TRUE, canWrite |-> canWrite,
     canDelete |-> canWrite, canUpload |-> canWrite, canCreateFolder |-> canWrite,
     canShare |-> TRUE, canDownload |-> TRUE, isShared |-> FALSE,
     shareInfo |-> NoShareInfo, userVolume |-> NoVolume, share |-> NoShare,
     effectivePermission |-> permission, denialReason |-> Null]

\* mutant: the administrator bypasses `hidden` as well as `ro`
standardVolumeAccess_adminSeesHidden(permission, isAdmin) ==
    IF permission = "hidden" /\ ~isAdmin
    THEN createDeniedAccess("Path is hidden")
    ELSE standardGranted(permission, permission # "ro" \/ isAdmin)

\* mutant: the administrator does not bypass `ro`
standardVolumeAccess_noAdminBypass(permission, isAdmin) ==
    IF permission = "hidden"
    THEN createDeniedAccess("Path is hidden")
    ELSE standardGranted(permission, permission # "ro")

\* "Standard access for admins or when USER_VOLUMES is disabled"
standardVolumeAccess(permission, isAdmin) ==
    IF permission = "hidden"
    THEN createDeniedAccess("Path is hidden")
    ELSE LET isReadOnly == permission = "ro"
         IN  standardGranted(permission, ~isReadOnly \/ isAdmin)

\* mutant: a guest session denies volume access even when a user is signed in
getVolumeAccess_guestFirst(context, relativePath, options, st) ==
    LET user == context.user
        isAdmin == isAdminUser(user)
    IN  IF HasGuest(context)
        THEN createDeniedAccess("Guests cannot access volumes")
        ELSE IF ~HasUser(context)
        THEN createDeniedAccess("Authentication required")
        ELSE IF st.featureUserVolumes /\ ~isAdmin
        THEN userVolumeAccess(getUserVolumeForPath(st, user.id, relativePath),
                              getPerm(options, st, relativePath))
        ELSE standardVolumeAccess(getPerm(options, st, relativePath), isAdmin)

getVolumeAccess(context, relativePath, options, st) ==
    LET user == context.user
        isAdmin == isAdminUser(user)
    IN  IF HasGuest(context) /\ context.user = NoUser
        THEN createDeniedAccess("Guests cannot access volumes")
        ELSE IF ~HasUser(context)
        THEN createDeniedAccess("Authentication required")
        ELSE IF st.featureUserVolumes /\ ~isAdmin
        THEN userVolumeAccess(getUserVolumeForPath(st, user.id, relativePath),
                              getPerm(options, st, relativePath))
        ELSE standardVolumeAccess(getPerm(options, st, relativePath), isAdmin)

\* mutant: any session, a guest session included, opens the personal space
getPersonalAccess_anySession(context, relativePath) ==
    IF context.user = NoUser /\ ~HasGuest(context)
    THEN createDeniedAccess("Authentication required")
    ELSE [canAccess |-> TRUE, canRead |-> TRUE, canWrite |-> TRUE,
          canDelete |-> TRUE, canUpload |-> TRUE, canCreateFolder |-> TRUE,
          canShare |-> TRUE, canDownload |-> TRUE, isShared |-> FALSE,
          shareInfo |-> NoShareInfo, userVolume |-> NoVolume,
          share |-> NoShare, effectivePermission |-> "rw",
          denialReason |-> Null]

\* mutant: the path rules apply to the personal space as they do to volumes
getPersonalAccess_ruled(context, relativePath) ==
    IF HasGuest(context) /\ context.user = NoUser
    THEN createDeniedAccess("Guests cannot access personal folders")
    ELSE IF ~HasUser(context)
    THEN createDeniedAccess("Authentication required")
    ELSE standardVolumeAccess(getPermissionForPath(rules, relativePath), FALSE)

getPersonalAccess(context, relativePath) ==
    IF HasGuest(context) /\ context.user = NoUser
    THEN createDeniedAccess("Guests cannot access personal folders")
    ELSE IF ~HasUser(context)
    THEN createDeniedAccess("Authentication required")
    ELSE [canAccess |-> TRUE, canRead |-> TRUE, canWrite |-> TRUE,
          canDelete |-> TRUE, canUpload |-> TRUE, canCreateFolder |-> TRUE,
          canShare |-> TRUE, canDownload |-> TRUE, isShared |-> FALSE,
          shareInfo |-> NoShareInfo, userVolume |-> NoVolume,
          share |-> NoShare, effectivePermission |-> "rw",
          denialReason |-> Null]

\* shareCache.get(shareToken), null without a cache or on a miss
cachedShare(shareToken, options) ==
    IF options.hasShareCache /\ shareToken \in DOMAIN options.shareCache
    THEN options.shareCache[shareToken] ELSE NoShare

\* the share record getShareAccess works on: from the cache, else the store
lookupShare(shareToken, options, st) ==
    IF cachedShare(shareToken, options) # NoShare
    THEN cachedShare(shareToken, options)
    ELSE getShareByToken(st, shareToken)

\* mutant: with a cache, a miss is not looked up in the store
lookupVolume_cacheOnly(volumeId, options, st) ==
    IF options.hasUserVolumeCache
    THEN IF volumeId \in DOMAIN options.userVolumeCache
         THEN options.userVolumeCache[volumeId] ELSE NoVolume
    ELSE getVolumeById(st, volumeId)

\* the user volume a user_volume share resolves to: from the cache, else the store
lookupVolume(volumeId, options, st) ==
    LET cached == IF options.hasUserVolumeCache
                     /\ volumeId \in DOMAIN options.userVolumeCache
                  THEN options.userVolumeCache[volumeId] ELSE NoVolume
    IN  IF cached # NoVolume THEN cached ELSE getVolumeById(st, volumeId)

\* mutant: the owner of a `users` share needs no permission grant
sharingTypeDenial_ownerBypass(context, share) ==
    IF share.sharingType = "users"
    THEN IF ~HasUser(context) THEN "Authentication required"
         ELSE IF context.user.id # share.ownerId
                 /\ ~hasUserPermission(share.id, context.user.id)
         THEN "Access denied"
         ELSE ""
    ELSE IF share.sharingType = "anyone"
    THEN IF context.user = NoUser /\ ~HasGuest(context) THEN "Share access required"
         ELSE IF HasGuest(context) /\ context.user = NoUser
                 /\ context.guestSession.shareId # share.id
         THEN "Invalid guest session for this share"
         ELSE ""
    ELSE ""

\* mutant: any guest session opens an `anyone` share
sharingTypeDenial_anyGuest(context, share) ==
    IF share.sharingType = "users"
    THEN IF ~HasUser(context) THEN "Authentication required"
         ELSE IF ~hasUserPermission(share.id, context.user.id) THEN "Access denied"
         ELSE ""
    ELSE IF share.sharingType = "anyone"
    THEN IF context.user = NoUser /\ ~HasGuest(context) THEN "Share access required"
         ELSE ""
    ELSE ""

\* "Check sharing type and permissions": the denial reason, "" when the caller passes
sharingTypeDenial(context, share) ==
    IF share.sharingType = "users"
    THEN IF ~HasUser(context) THEN "Authentication required"
         ELSE IF ~hasUserPermission(share.id, context.user.id) THEN "Access denied"
         ELSE ""
    ELSE IF share.sharingType = "anyone"
    THEN IF context.user = NoUser /\ ~HasGuest(context) THEN "Share access required"
         ELSE IF HasGuest(context) /\ context.user = NoUser
                 /\ context.guestSession.shareId # share.id
         THEN "Invalid guest session for this share"
         ELSE ""
    ELSE ""

\* const [volumeId, ...rest] = String(share.sourcePath || '').split('/').filter(Boolean)
shareSourceVolumeId(share) ==
    LET parts == splitSegments(share.sourcePath)
    IN  IF Len(parts) > 0 THEN parts[1] ELSE ""

\* mutant: the rules are evaluated on the share's source path alone
shareUnderlyingPath_ignoresInner(share, innerPath, userVolume) ==
    IF share.sourceSpace = "volume"
    THEN share.sourcePath
    ELSE LET parts == splitSegments(share.sourcePath)
         IN  <<userVolume.label>> \o SubSeq(parts, 2, Len(parts))

\* `combined` of a volume share, `logicalForRules` of a user_volume share
shareUnderlyingPath(share, innerPath, userVolume) ==
    LET joinInner == share.isDirectory /\ innerPath # <<>>
    IN  IF share.sourceSpace = "volume"
        THEN IF joinInner THEN combineRelativePath(share.sourcePath, innerPath)
             ELSE share.sourcePath
        ELSE LET parts == splitSegments(share.sourcePath)
                 baseWithinVolume == SubSeq(parts, 2, Len(parts))
                 combinedWithinVolume ==
                     IF joinInner THEN combineRelativePath(baseWithinVolume, innerPath)
                     ELSE baseWithinVolume
             IN  <<userVolume.label>> \o combinedWithinVolume

\* the object a granted share returns, by its effective mode
shareGranted(context, share, isReadWrite) ==
    [canAccess |-> TRUE, canRead |-> TRUE, canWrite |-> isReadWrite,
     canDelete |-> isReadWrite, canUpload |-> isReadWrite,
     canCreateFolder |-> isReadWrite, canShare |-> FALSE,
     canDownload |-> TRUE, isShared |-> TRUE,
     shareInfo |-> [shareId |-> share.id, shareToken |-> share.shareToken,
                    accessMode |-> IF isReadWrite THEN "readwrite" ELSE "readonly",
                    expiresAt |-> share.expiresAt,
                    isOwner |-> HasUser(context) /\ context.user.id = share.ownerId,
                    label |-> share.label],
     userVolume |-> NoVolume, share |-> share,
     effectivePermission |-> IF isReadWrite THEN "rw" ELSE "ro",
     denialReason |-> Null]

\* mutant: the share's own access mode is not capped
grantedShareAccess_uncapped(context, share, underlyingReadOnly) ==
    shareGranted(context, share, share.accessMode = "readwrite")

\* mutant: a share that granted write when it was created keeps granting it
grantedShareAccess_capAtCreate(context, share, underlyingReadOnly) ==
    shareGranted(context, share,
        share.accessMode = "readwrite"
        /\ (~underlyingReadOnly \/ writableAtCreate[share.shareToken]))

\* access mode of the share capped by the underlying permission
grantedShareAccess(context, share, underlyingReadOnly) ==
    LET shareReadWrite == share.accessMode = "readwrite"
        isReadWrite == shareReadWrite /\ ~underlyingReadOnly
    IN  shareGranted(context, share, isReadWrite)

\* mutant: the owner of the source volume is not compared with the share's
cappedShareAccess_noOwnerCheck(context, share, innerPath, options, st) ==
    LET volumeId == shareSourceVolumeId(share)
        userVolume == lookupVolume(volumeId, options, st)
        underlyingPermission ==
            getPerm(options, st, shareUnderlyingPath(share, innerPath, userVolume))
    IN  IF share.sourceSpace = "volume"
        THEN IF underlyingPermission = "hidden"
             THEN createDeniedAccess("Path is hidden")
             ELSE grantedShareAccess(context, share, underlyingPermission = "ro")
        ELSE IF share.sourceSpace = "user_volume"
        THEN IF volumeId = ""
             THEN createDeniedAccess("Share source volume is invalid")
             ELSE IF userVolume = NoVolume
             THEN createDeniedAccess("Share source volume not found")
             ELSE IF underlyingPermission = "hidden"
             THEN createDeniedAccess("Path is hidden")
             ELSE grantedShareAccess(context, share,
                      userVolume.accessMode = "readonly"
                      \/ underlyingPermission = "ro")
        ELSE grantedShareAccess(context, share, FALSE)

\* "Cap share write permissions by the underlying source permission"
cappedShareAccess(context, share, innerPath, options, st) ==
    LET volumeId == shareSourceVolumeId(share)
        userVolume == lookupVolume(volumeId, options, st)
        underlyingPermission ==
            getPerm(options, st, shareUnderlyingPath(share, innerPath, userVolume))
    IN  IF share.sourceSpace = "volume"
        THEN IF underlyingPermission = "hidden"
             THEN createDeniedAccess("Path is hidden")
             ELSE grantedShareAccess(context, share, underlyingPermission = "ro")
        ELSE IF share.sourceSpace = "user_volume"
        THEN IF volumeId = ""
             THEN createDeniedAccess("Share source volume is invalid")
             ELSE IF userVolume = NoVolume
             THEN createDeniedAccess("Share source volume not found")
             ELSE IF userVolume.userId # share.ownerId
             THEN createDeniedAccess("Share source volume mismatch")
             ELSE IF underlyingPermission = "hidden"
             THEN createDeniedAccess("Path is hidden")
             ELSE grantedShareAccess(context, share,
                      userVolume.accessMode = "readonly"
                      \/ underlyingPermission = "ro")
        ELSE grantedShareAccess(context, share, FALSE)

\* mutant: expiry is checked only when the share is fetched from the store
getShareAccess_expiryOnFetch(context, shareToken, innerPath, options, st) ==
    LET share == lookupShare(shareToken, options, st)
    IN  IF shareToken = ""
        THEN createDeniedAccess("Share token is required")
        ELSE IF share = NoShare
        THEN createDeniedAccess("Share not found")
        ELSE IF cachedShare(shareToken, options) = NoShare /\ isShareExpired(st, share)
        THEN createDeniedAccess("Share has expired")
        ELSE IF sharingTypeDenial(context, share) # ""
        THEN createDeniedAccess(sharingTypeDenial(context, share))
        ELSE cappedShareAccess(context, share, innerPath, options, st)

getShareAccess(context, shareToken, innerPath, options, st) ==
    LET share == lookupShare(shareToken, options, st)
    IN  IF shareToken = ""
        THEN createDeniedAccess("Share token is required")
        ELSE IF share = NoShare
        THEN createDeniedAccess("Share not found")
        ELSE IF isShareExpired(st, share)
        THEN createDeniedAccess("Share has expired")
        ELSE IF sharingTypeDenial(context, share) # ""
        THEN createDeniedAccess(sharingTypeDenial(context, share))
        ELSE cappedShareAccess(context, share, innerPath, options, st)

getAccessInfo(context, relativePath, options, st) ==
    LET parsed == parsePathSpace(relativePath)
    IN  IF parsed.space = "volume"
        THEN getVolumeAccess(context, parsed.rel, options, st)
        ELSE IF parsed.space = "personal"
        THEN getPersonalAccess(context, parsed.rel)
        ELSE IF parsed.space = "share"
        THEN getShareAccess(context, parsed.shareToken, parsed.innerPath, options, st)
        ELSE createDeniedAccess("Unknown path space")

-----------------------------------------------------------------------------
(* services/directoryListingService.js *)

\* config excludedFiles
excludedFiles == {".DS_Store"}

\* what fs.readdir returns for the listed directory
DirEntries == <<"s", "x", ".DS_Store", "p.download", "Q.DOWNLOAD">>

\* path.extname(name).toLowerCase() for the names above
extnameLower(name) ==
    IF name \in {"p.download", "Q.DOWNLOAD"} THEN ".download" ELSE ""

SkippedStatCodes == {"EPERM", "EACCES", "ENOENT", "ELOOP"}

toKind(isDir, name) ==
    IF isDir THEN "directory"
    ELSE IF extnameLower(name) = "" THEN "unknown"
    ELSE extnameLower(name)

\* accessOptions of one listing; permissionRules is <<>> for null or []
listingOptions(permissionRules, shareCache, userVolumeCache) ==
    [hasResolver |-> Len(permissionRules) > 0, resolverRules |-> permissionRules,
     hasShareCache |-> shareCache.present, shareCache |-> shareCache.map,
     hasUserVolumeCache |-> userVolumeCache.present,
     userVolumeCache |-> userVolumeCache.map]

NoCache(keys, none) == [present |-> FALSE, map |-> [k \in keys |-> none]]

\* mutant: every child whose stat succeeds is listed
listChild_unfiltered(name, parentLogicalPath, context, accessOptions, statOf, st) ==
    IF statOf[name] \in SkippedStatCodes THEN "skip"
    ELSE IF statOf[name] # "OK" THEN "throw"
    ELSE "keep"

\* mutant: a stat failure of any code skips the child
listChild_skipsEveryStatError(name, parentLogicalPath, context, accessOptions, statOf, st) ==
    IF statOf[name] # "OK" THEN "skip"
    ELSE IF ~getAccessInfo(context, combineRelativePath(parentLogicalPath, <<name>>),
                           accessOptions, st).canAccess
    THEN "skip"
    ELSE "keep"

\* the filtered.map callback: "skip", "throw" or "keep"
listChild(name, parentLogicalPath, context, accessOptions, statOf, st) ==
    IF statOf[name] \in SkippedStatCodes THEN "skip"
    ELSE IF statOf[name] # "OK" THEN "throw"
    ELSE IF ~getAccessInfo(context, combineRelativePath(parentLogicalPath, <<name>>),
                           accessOptions, st).canAccess
    THEN "skip"
    ELSE "keep"

listDirectoryItems(parentLogicalPath, context, excludeDownloadArtifacts, permissionRules, statOf, st) ==
    LET accessOptions ==
            listingOptions(permissionRules, NoCache(Tokens, NoShare),
                           NoCache(VolumeIds, NoVolume))
        filtered ==
            SelectSeq(DirEntries,
                LAMBDA name :
                    /\ name \notin excludedFiles
                    /\ (excludeDownloadArtifacts => extnameLower(name) # ".download"))
        outcome == [i \in 1..Len(filtered) |->
                        [name |-> filtered[i],
                         child |-> listChild(filtered[i], parentLogicalPath, context,
                                             accessOptions, statOf, st)]]
        kept == SelectSeq(outcome, LAMBDA o : o.child = "keep")
    IN  IF \E i \in 1..Len(outcome) : outcome[i].child = "throw"
        THEN [status |-> "throw", items |-> <<>>]
        ELSE [status |-> "ok",
              items |-> [i \in 1..Len(kept) |->
                            [name |-> kept[i].name, path |-> parentLogicalPath,
                             kind |-> toKind(kept[i].name = "s", kept[i].name)]]]

-----------------------------------------------------------------------------
(* The caches of a request, as a decision leaves them *)

\* if (shareCache && share) shareCache.set(shareToken, share)
shareCacheAfter(shareToken, options, st) ==
    IF /\ options.hasShareCache
       /\ shareToken \in DOMAIN options.shareCache
       /\ cachedShare(shareToken, options) = NoShare
    THEN [options.shareCache EXCEPT ![shareToken] = getShareByToken(st, shareToken)]
    ELSE options.shareCache

\* if (userVolumeCache && userVolume) userVolumeCache.set(volumeId, userVolume),
\* reached by a user_volume share that passed the expiry and sharing checks
userVolumeCacheAfter(context, shareToken, options, st) ==
    LET share == lookupShare(shareToken, options, st)
        volumeId == shareSourceVolumeId(share)
    IN  IF /\ options.hasUserVolumeCache
           /\ shareToken # ""
           /\ share # NoShare
           /\ ~isShareExpired(st, share)
           /\ sharingTypeDenial(context, share) = ""
           /\ share.sourceSpace = "user_volume"
           /\ volumeId \in DOMAIN options.userVolumeCache
        THEN [options.userVolumeCache EXCEPT
                 ![volumeId] = lookupVolume(volumeId, options, st)]
        ELSE options.userVolumeCache

\* the options object after getAccessInfo(context, relativePath, options)
optionsAfter(context, relativePath, options, st) ==
    LET parsed == parsePathSpace(relativePath)
    IN  IF parsed.space = "share"
        THEN [options EXCEPT
                 !.shareCache = shareCacheAfter(parsed.shareToken, options, st),
                 !.userVolumeCache =
                     userVolumeCacheAfter(context, parsed.shareToken, options, st)]
        ELSE options

-----------------------------------------------------------------------------
(* services/authorizationService.js *)

\* ACTIONS, the frozen table of action names
DefinedActions ==
    {"list", "read", "write", "delete", "upload", "createFolder", "rename",
     "download", "createShare"}

\* mutant: rename is authorized by the read capability
actionToFlag_renameReads(action) ==
    CASE action \in {"list", "read", "rename"} -> "canRead"
      [] action = "write" -> "canWrite"
      [] action = "delete" -> "canDelete"
      [] action = "upload" -> "canUpload"
      [] action = "createFolder" -> "canCreateFolder"
      [] action = "download" -> "canDownload"
      [] action = "createShare" -> "canShare"
      [] OTHER -> Null

actionToFlag(action) ==
    CASE action \in {"list", "read"} -> "canRead"
      [] action = "write" -> "canWrite"
      [] action = "delete" -> "canDelete"
      [] action = "upload" -> "canUpload"
      [] action = "createFolder" -> "canCreateFolder"
      [] action = "rename" -> "canWrite"
      [] action = "download" -> "canDownload"
      [] action = "createShare" -> "canShare"
      [] OTHER -> Null

authorizePath(context, logicalPath, action, options, st) ==
    LET accessInfo == getAccessInfo(context, logicalPath, options, st)
        flag == actionToFlag(action)
    IN  IF ~accessInfo.canAccess
        THEN [allowed |-> FALSE, accessInfo |-> accessInfo]
        ELSE IF flag = Null
        THEN [allowed |-> FALSE,
              accessInfo |-> [accessInfo EXCEPT !.denialReason = "Unknown action"]]
        ELSE [allowed |-> accessInfo[flag], accessInfo |-> accessInfo]

\* resolveLogicalPath: the resolved location, or nothing when `found` is false
resolveLogicalPath(relativePath, found) ==
    IF found THEN {normalizeRelativePath(relativePath)} ELSE {}

resolvePathWithAccess(context, relativePath, options, st, found) ==
    LET accessInfo == getAccessInfo(context, relativePath, options, st)
    IN  IF ~accessInfo.canAccess
        THEN [accessInfo |-> accessInfo, resolved |-> {}]
        ELSE [accessInfo |-> accessInfo,
              resolved |-> resolveLogicalPath(relativePath, found)]

authorizeAndResolve(context, logicalPath, action, options, st, found) ==
    LET r == resolvePathWithAccess(context, logicalPath, options, st, found)
        accessInfo == r.accessInfo
        flag == actionToFlag(action)
    IN  IF ~accessInfo.canAccess \/ r.resolved = {}
        THEN [allowed |-> FALSE, accessInfo |-> accessInfo, resolved |-> {}]
        ELSE IF flag = Null
        THEN [allowed |-> FALSE,
              accessInfo |-> [accessInfo EXCEPT !.denialReason = "Unknown action"],
              resolved |-> {}]
        ELSE IF ~accessInfo[flag]
        THEN [allowed |-> FALSE, accessInfo |-> accessInfo, resolved |-> {}]
        ELSE [allowed |-> TRUE, accessInfo |-> accessInfo, resolved |-> r.resolved]

-----------------------------------------------------------------------------
(* Inputs *)

\* rule lists an administrator submits (PATCH /settings, setRules), unsanitized
RawRules ==
    {[path |-> <<"d">>, recursive |-> TRUE, permissions |-> "ro"],
     [path |-> <<"d">>, recursive |-> TRUE, permissions |-> "hidden"],
     [path |-> <<"d", "s">>, recursive |-> FALSE, permissions |-> "ro"],
     [path |-> <<"d", "s">>, recursive |-> FALSE, permissions |-> "hidden"],
     [path |-> <<"", "d", "", "s">>, recursive |-> FALSE, permissions |-> "hidden"],
     [path |-> <<"..", "d">>, recursive |-> TRUE, permissions |-> "hidden"],
     [path |-> <<"">>, recursive |-> TRUE, permissions |-> "ro"]}

RECURSIVE SeqsUpTo(_, _)
SeqsUpTo(S, n) ==
    IF n = 0 THEN {<<>>}
    ELSE LET shorter == SeqsUpTo(S, n - 1)
         IN  shorter \cup {Append(q, x) : q \in shorter, x \in S}

UserVolumeRecords ==
    {[id |-> "vol1", userId |-> u, label |-> "d", accessMode |-> m] :
        u \in {"alice"}, m \in {"readwrite", "readonly"}}
    \cup {[id |-> "vol1", userId |-> "bob", label |-> "d", accessMode |-> "readwrite"]}

ShareSources ==
    {[sourceSpace |-> "volume", sourcePath |-> <<"d">>, isDirectory |-> TRUE],
     [sourceSpace |-> "volume", sourcePath |-> <<"d", "s">>, isDirectory |-> FALSE],
     [sourceSpace |-> "user_volume", sourcePath |-> <<"vol1">>, isDirectory |-> TRUE],
     [sourceSpace |-> "user_volume", sourcePath |-> <<>>, isDirectory |-> TRUE],
     [sourceSpace |-> "legacy", sourcePath |-> <<"d">>, isDirectory |-> TRUE]}

\* shares of every source, sharing type and access mode; the expiry check
\* precedes every use of the source, so one source carries the expiry dates
ShareRecords ==
    {r \in {[id |-> "s1", shareToken |-> "t1", ownerId |-> "alice",
             sourceSpace |-> src.sourceSpace, sourcePath |-> src.sourcePath,
             isDirectory |-> src.isDirectory, sharingType |-> ty, accessMode |-> am,
             expiresAt |-> ex, label |-> "shared"] :
                src \in ShareSources, ty \in {"anyone", "users"},
                am \in {"readwrite", "readonly"}, ex \in {{}, {1}}} :
        r.expiresAt # {} => (r.sourceSpace = "volume" /\ r.sourcePath = <<"d">>)}

LogicalPaths ==
    {<<"d">>, <<"d", "s">>, <<"personal", "s">>, <<"share">>,
     <<"share", "t1">>, <<"share", "t1", "s">>, <<"d", "..", "s">>}

ListedPaths == {<<"d">>, <<"share", "t1">>, <<"personal">>}

\* callers without a guest session: a user, an administrator, nobody
PlainContexts ==
    {[user |-> u, guestSession |-> NoGuest] : u \in {alice, root, NoUser}}

\* callers of a listing: a user, a guest of this or of another share, nobody
ListContexts ==
    {c \in Contexts : c.user = NoUser \/ c.guestSession = NoGuest}

\* fs.stat outcomes: "OK" or the error code; only the entry x can fail
StatOutcomes ==
    {[name \in {DirEntries[i] : i \in 1..Len(DirEntries)} |->
         IF name = "x" THEN code ELSE "OK"] : code \in {"OK", "ENOENT", "EIO"}}

-----------------------------------------------------------------------------
(* Stores of the auth, settings and file-mutating routes *)

\* bcrypt.hashSync(password, 12): the stored hash is not the password
hashSync(password) == <<"bcrypt", password>>

\* bcrypt.compareSync(password, hash)
compareSync(password, hash) == hash = hashSync(password)

\* the passwords a request carries; Null is a value that is not a string
Passwords == {"secret123", "newpass456", "wrong-password", "short", ""}

\* String.prototype.length
StringLength(s) ==
    CASE s = "secret123" -> 9
      [] s = "newpass456" -> 10
      [] s = "wrong-password" -> 14
      [] s = "short" -> 5
      [] OTHER -> 0

\* users table: the ids (and emails) that have a row; "ghost" has none
DbUserIds == {u.id : u \in Users}
AccountIds == DbUserIds \cup {"ghost"}

\* after POST /api/auth/setup: the administrator has a local password, the
\* other users sign in through another method
\* a user without an enabled local_password row (or without a password_hash)
NoAuthMethod == <<>>

InitialAuthMethods ==
    [id \in DbUserIds |-> IF id = root.id THEN hashSync("secret123") ELSE NoAuthMethod]

\* a table row that does not exist
NoRow == "absent"

\* the user_settings keys PATCH /settings accepts
UserSettingKeys == {"showHiddenFiles", "showThumbnails", "defaultShareExpiration", "skipHome"}

InitialUserSettings == [id \in DbUserIds |-> [key \in UserSettingKeys |-> NoRow]]

\* no system/thumbnails and no branding/branding row: reads fall back to defaults
InitialSystemSettings == [thumbnails |-> {}, branding |-> {}]

\* the volume d with the file s, and the personal folder
InitialFsEntries ==
    {[path |-> <<"d">>, isDirectory |-> TRUE],
     [path |-> <<"d", "s">>, isDirectory |-> FALSE],
     [path |-> <<"personal">>, isDirectory |-> TRUE]}

-----------------------------------------------------------------------------
(* State machine *)

NoResponse == [op |-> "none"]

Init ==
    /\ rules = <<>>
    /\ shares = [t \in Tokens |-> NoShare]
    /\ userVolumes = [v \in VolumeIds |-> NoVolume]
    /\ now = 0
    /\ featureUserVolumes \in BOOLEAN
    /\ last = NoResponse
    /\ writableAtCreate = [t \in Tokens |-> FALSE]
    /\ authMethods = InitialAuthMethods
    /\ authLocks = {}
    /\ userSettings = InitialUserSettings
    /\ systemSettings = InitialSystemSettings
    /\ fsEntries = InitialFsEntries

\* the caches of a request that has already looked its share and volume up
requestOptions(cached) ==
    IF cached
    THEN [NoOptions EXCEPT !.hasShareCache = TRUE, !.shareCache = shares,
                           !.hasUserVolumeCache = TRUE,
                           !.userVolumeCache = userVolumes]
    ELSE NoOptions

\* a single-path check: getAccessInfo(context, logicalPath, options), with
\* options = {} or with the request's caches
\* parsePathSpace normalizes the path first and throws on a traversal attempt
Decide(context, logicalPath, cached) ==
    /\ last = NoResponse
    /\ cached => /\ parsePathSpace(logicalPath).space = "share"
                 /\ getShareByToken(World, parsePathSpace(logicalPath).shareToken)
                        # NoShare
    /\ last' = IF IsTraversal(logicalPath)
               THEN [op |-> "throw", context |-> context, path |-> logicalPath,
                     cached |-> cached, error |-> "Invalid path"]
               ELSE [op |-> "decide", context |-> context, path |-> logicalPath,
                     cached |-> cached,
                     decision |-> getAccessInfo(context, logicalPath,
                                                requestOptions(cached), World)]
    /\ UNCHANGED <<rules, shares, userVolumes, now, featureUserVolumes, writableAtCreate>>
    /\ UNCHANGED routeStores

\* one call of listDirectoryItems on the current stores
ListDirectory(context, parentLogicalPath, excludeDownloadArtifacts, passRules, statOf) ==
    /\ last = NoResponse
    /\ last' = [op |-> "list", context |-> context, path |-> parentLogicalPath,
                excludeDownloadArtifacts |-> excludeDownloadArtifacts,
                statOf |-> statOf,
                result |-> listDirectoryItems(parentLogicalPath, context,
                              excludeDownloadArtifacts,
                              IF passRules THEN getRules(rules) ELSE <<>>,
                              statOf, World)]
    /\ UNCHANGED <<rules, shares, userVolumes, now, featureUserVolumes, writableAtCreate>>
    /\ UNCHANGED routeStores

\* the response is sent; the next request is served
Respond ==
    /\ last # NoResponse
    /\ last' = NoResponse
    /\ UNCHANGED <<rules, shares, userVolumes, now, featureUserVolumes, writableAtCreate>>
    /\ UNCHANGED routeStores

\* setRules(rules) -> setSettings({access}) -> setSystemSetting('system', 'access', ...)
setRules(rawRules) ==
    /\ last = NoResponse
    /\ rules' = sanitizeAccessRules(rawRules)
    /\ UNCHANGED <<shares, userVolumes, now, featureUserVolumes, last, writableAtCreate>>
    /\ UNCHANGED routeStores

createShare(share) ==
    /\ last = NoResponse
    /\ shares[share.shareToken] = NoShare
    /\ shares' = [shares EXCEPT ![share.shareToken] = share]
    /\ writableAtCreate' =
          [writableAtCreate EXCEPT ![share.shareToken] =
              getAccessInfo([user |-> bob, guestSession |-> NoGuest],
                            <<"share", share.shareToken>>, NoOptions,
                            [World EXCEPT !.shares = shares']).canWrite]
    /\ UNCHANGED <<rules, userVolumes, now, featureUserVolumes, last>>
    /\ UNCHANGED routeStores

\* an administrator assigns, changes or removes a user volume
setUserVolume(volumeId, volume) ==
    /\ last = NoResponse
    /\ userVolumes[volumeId] # volume
    /\ userVolumes' = [userVolumes EXCEPT ![volumeId] = volume]
    /\ UNCHANGED <<rules, shares, now, featureUserVolumes, last, writableAtCreate>>
    /\ UNCHANGED routeStores

\* time passes; it is observed only through the expiry of a stored share
Tick ==
    /\ last = NoResponse
    /\ now < MaxNow
    /\ \E t \in Tokens : \E e \in shares[t].expiresAt : e > now
    /\ now' = now + 1
    /\ UNCHANGED <<rules, shares, userVolumes, featureUserVolumes, last, writableAtCreate>>
    /\ UNCHANGED routeStores

Next ==
    \/ \E context \in Contexts, logicalPath \in LogicalPaths, cached \in BOOLEAN :
          Decide(context, logicalPath, cached)
    \/ Respond
    \/ \E rawRules \in SeqsUpTo(RawRules, MaxRules) : setRules(rawRules)
    \/ \E share \in ShareRecords : createShare(share)
    \/ \E volumeId \in VolumeIds, volume \in UserVolumeRecords \cup {NoVolume} :
          setUserVolume(volumeId, volume)
    \/ Tick

Spec == Init /\ [][Next]_vars

\* the listing service under rule and share changes, one clock reading
NextList ==
    \/ \E context \in ListContexts, parentLogicalPath \in ListedPaths,
          excludeDownloadArtifacts \in BOOLEAN, passRules \in BOOLEAN,
          statOf \in StatOutcomes :
          ListDirectory(context, parentLogicalPath, excludeDownloadArtifacts,
                        passRules, statOf)
    \/ Respond
    \/ \E rawRules \in SeqsUpTo(RawRules, MaxRules) : setRules(rawRules)
    \/ \E share \in {r \in ShareRecords : r.expiresAt = {}} : createShare(share)
    \/ \E volumeId \in VolumeIds, volume \in UserVolumeRecords \cup {NoVolume} :
          setUserVolume(volumeId, volume)

SpecList == Init /\ [][NextList]_vars

\* fs.stat outcomes with one failing child, over every skipped code and two
\* codes that are not skipped
StatCodes == {"OK", "ENOENT", "EPERM", "EACCES", "ELOOP", "EIO", "EMFILE"}

OneChildStatOutcomes ==
    {[name \in {DirEntries[i] : i \in 1..Len(DirEntries)} |->
         IF name = failing THEN code ELSE "OK"] :
         failing \in {"s", "x"}, code \in StatCodes}

NextStat ==
    \/ \E context \in PlainContexts, parentLogicalPath \in {<<"d">>, <<"personal">>},
          passRules \in BOOLEAN, statOf \in OneChildStatOutcomes :
          ListDirectory(context, parentLogicalPath, TRUE, passRules, statOf)
    \/ Respond
    \/ \E rawRules \in SeqsUpTo(RawRules, MaxRules) : setRules(rawRules)

SpecStat == Init /\ [][NextStat]_vars

-----------------------------------------------------------------------------
(* The authorization facade: authorizePath and authorizeAndResolve *)

\* action names a route can pass: the nine defined ones and two that are not
ActionNames == DefinedActions \cup {"chmod", "LIST"}

AuthorizeContexts ==
    {c \in Contexts : \/ c.user = NoUser /\ c.guestSession.shareId # "s2"
                      \/ c.user \in {alice, root} /\ c.guestSession = NoGuest}

AuthorizePaths ==
    {<<"d">>, <<"personal", "s">>, <<"share", "t1">>, <<"d", "..", "s">>}

Authorize(context, logicalPath, action) ==
    /\ last = NoResponse
    /\ last' = IF IsTraversal(logicalPath)
               THEN [op |-> "throw", context |-> context, path |-> logicalPath,
                     cached |-> FALSE, error |-> "Invalid path"]
               ELSE [op |-> "authorize", context |-> context, path |-> logicalPath,
                     action |-> action,
                     result |-> authorizePath(context, logicalPath, action,
                                              NoOptions, World)]
    /\ UNCHANGED <<rules, shares, userVolumes, now, featureUserVolumes, writableAtCreate>>
    /\ UNCHANGED routeStores

AuthorizeAndResolve(context, logicalPath, action, found) ==
    /\ last = NoResponse
    /\ last' = IF IsTraversal(logicalPath)
               THEN [op |-> "throw", context |-> context, path |-> logicalPath,
                     cached |-> FALSE, error |-> "Invalid path"]
               ELSE [op |-> "authorizeAndResolve", context |-> context,
                     path |-> logicalPath, action |-> action, found |-> found,
                     result |-> authorizeAndResolve(context, logicalPath, action,
                                                    NoOptions, World, found)]
    /\ UNCHANGED <<rules, shares, userVolumes, now, featureUserVolumes, writableAtCreate>>
    /\ UNCHANGED routeStores

NextAuthorize ==
    \/ \E context \in AuthorizeContexts, logicalPath \in AuthorizePaths,
          action \in ActionNames :
            \/ Authorize(context, logicalPath, action)
            \/ \E found \in BOOLEAN :
                  AuthorizeAndResolve(context, logicalPath, action, found)
    \/ Respond
    \/ \E rawRules \in SeqsUpTo(RawRules, MaxRules) : setRules(rawRules)
    \/ \E share \in {r \in ShareRecords : /\ r.expiresAt = {}
                                          /\ r.sharingType = "anyone"
                                          /\ r.sourcePath = <<"d">>
                                          /\ r.sourceSpace = "volume"} :
          createShare(share)
    \/ \E volumeId \in VolumeIds, volume \in UserVolumeRecords :
          setUserVolume(volumeId, volume)

SpecAuthorize == Init /\ [][NextAuthorize]_vars

-----------------------------------------------------------------------------
(* Decisions on the personal space under rules that name personal paths *)

PersonalRawRules ==
    {[path |-> <<"personal">>, recursive |-> TRUE, permissions |-> "hidden"],
     [path |-> <<"personal">>, recursive |-> TRUE, permissions |-> "ro"],
     [path |-> <<"personal", "s">>, recursive |-> FALSE, permissions |-> "hidden"],
     [path |-> <<"d">>, recursive |-> TRUE, permissions |-> "ro"]}

PersonalPaths == {<<"personal">>, <<"personal", "s">>, <<"personal", "s", "x">>}

NextPersonal ==
    \/ \E context \in Contexts, logicalPath \in PersonalPaths :
          Decide(context, logicalPath, FALSE)
    \/ Respond
    \/ \E rawRules \in SeqsUpTo(PersonalRawRules, MaxRules) : setRules(rawRules)

SpecPersonal == Init /\ [][NextPersonal]_vars

-----------------------------------------------------------------------------
(* Two decisions of one request that share its caches *)

CacheModes == {"none", "empty", "populated"}

\* the options of the first decision of a request
firstOptions(mode) ==
    IF mode = "none" THEN NoOptions
    ELSE IF mode = "empty"
    THEN [NoOptions EXCEPT !.hasShareCache = TRUE, !.hasUserVolumeCache = TRUE]
    ELSE requestOptions(TRUE)

CacheContexts ==
    {c \in Contexts : \/ c.user = NoUser /\ c.guestSession.shareId # "s2"
                      \/ c.user \in {alice, bob} /\ c.guestSession = NoGuest}

CachePaths == {<<"d">>, <<"share", "t1">>, <<"share", "t1", "s">>, <<"d", "..", "s">>}

DecideTwice(context, logicalPath, mode) ==
    /\ last = NoResponse
    /\ last' = IF IsTraversal(logicalPath)
               THEN [op |-> "throw", context |-> context, path |-> logicalPath,
                     cached |-> FALSE, error |-> "Invalid path"]
               ELSE LET options == firstOptions(mode)
                        after == optionsAfter(context, logicalPath, options, World)
                    IN  [op |-> "decideTwice", context |-> context,
                         path |-> logicalPath, mode |-> mode,
                         first |-> getAccessInfo(context, logicalPath, options, World),
                         caches |-> after,
                         second |-> getAccessInfo(context, logicalPath, after, World)]
    /\ UNCHANGED <<rules, shares, userVolumes, now, featureUserVolumes, writableAtCreate>>
    /\ UNCHANGED routeStores

NextCache ==
    \/ \E context \in CacheContexts, logicalPath \in CachePaths, mode \in CacheModes :
          DecideTwice(context, logicalPath, mode)
    \/ Respond
    \/ \E rawRules \in SeqsUpTo(RawRules, MaxRules) : setRules(rawRules)
    \/ \E share \in {r \in ShareRecords : r.expiresAt = {}} : createShare(share)
    \/ \E volumeId \in VolumeIds, volume \in UserVolumeRecords \cup {NoVolume} :
          setUserVolume(volumeId, volume)

SpecCache == Init /\ [][NextCache]_vars

-----------------------------------------------------------------------------
(* routes/files/delete.js and routes/files/utils.js *)

\* assertWritable(relativePath): "ok", or the error it throws
assertWritable(st, relativePath) ==
    IF getPermissionForPath(st.rules, relativePath) # "rw"
    THEN "ForbiddenError" ELSE "ok"

\* deleteItems of fileTransferService, which authorizes the delete of the item
deleteItems(context, item, st) ==
    authorizePath(context, combineRelativePath(item.path, <<item.name>>),
                  "delete", NoOptions, st).allowed

\* one item of the request body: the parent path and the name
DeleteItems ==
    {[path |-> <<"d">>, name |-> "s"],
     [path |-> <<"personal">>, name |-> "s"],
     [path |-> <<"share", "t1">>, name |-> "s"],
     [path |-> <<"d", "..">>, name |-> "s"]}

\* DELETE /files with one item
DeleteFiles(context, item) ==
    /\ last = NoResponse
    /\ last' = IF IsTraversal(item.path)
               THEN [op |-> "throw", context |-> context, path |-> item.path,
                     cached |-> FALSE, error |-> "Invalid path"]
               ELSE LET parent == normalizeRelativePath(item.path)
                        precheck == assertWritable(World, parent)
                    IN  [op |-> "delete", context |-> context, item |-> item,
                         precheck |-> precheck,
                         deleted |-> precheck = "ok"
                                     /\ deleteItems(context, item, World)]
    /\ UNCHANGED <<rules, shares, userVolumes, now, featureUserVolumes, writableAtCreate>>
    /\ UNCHANGED routeStores

NextDelete ==
    \/ \E context \in Contexts, item \in DeleteItems : DeleteFiles(context, item)
    \/ Respond
    \/ \E rawRules \in SeqsUpTo(RawRules, MaxRules) : setRules(rawRules)
    \/ \E volumeId \in VolumeIds, volume \in UserVolumeRecords \cup {NoVolume} :
          setUserVolume(volumeId, volume)

SpecDelete == Init /\ [][NextDelete]_vars

-----------------------------------------------------------------------------
(* services/users/localAuth.js: changing the password and signing in *)

\* the HTTP status the error middleware gives an AppError
statusCode(error) ==
    CASE error = "UnauthorizedError" -> 401
      [] error = "ValidationError" -> 400
      [] error = "NotFoundError" -> 404
      [] OTHER -> 500

\* changeLocalPassword that stores the new hash before it compares the current one
changeLocalPassword_storesFirst(methods, userId, currentPassword, newPassword) ==
    IF userId \notin DbUserIds
    THEN [error |-> "NotFoundError", message |-> "User not found.",
          authMethods |-> methods]
    ELSE IF currentPassword # Null /\ compareSync(currentPassword, methods[userId])
    THEN [error |-> Null, message |-> Null,
          authMethods |-> [methods EXCEPT ![userId] = hashSync(newPassword)]]
    ELSE [error |-> "UnauthorizedError", message |-> "Current password is incorrect.",
          authMethods |-> [methods EXCEPT ![userId] = hashSync(newPassword)]]

\* changeLocalPassword({userId, currentPassword, newPassword}): the error it
\* throws (Null when it returns true) and the auth_methods table afterwards
changeLocalPassword(methods, userId, currentPassword, newPassword) ==
    IF userId \notin DbUserIds
    THEN [error |-> "NotFoundError", message |-> "User not found.",
          authMethods |-> methods]
    ELSE IF methods[userId] = NoAuthMethod
    THEN [error |-> "ValidationError",
          message |-> "Password change is only allowed for users with password authentication.",
          authMethods |-> methods]
    ELSE IF currentPassword = Null \/ StringLength(currentPassword) = 0
    THEN [error |-> "ValidationError", message |-> "Current password is required.",
          authMethods |-> methods]
    ELSE IF newPassword = Null \/ StringLength(newPassword) < 6
    THEN [error |-> "ValidationError",
          message |-> "Password must be at least 6 characters long.",
          authMethods |-> methods]
    ELSE IF ~compareSync(currentPassword, methods[userId])
    THEN [error |-> "UnauthorizedError", message |-> "Current password is incorrect.",
          authMethods |-> methods]
    ELSE [error |-> Null, message |-> Null,
          authMethods |-> [methods EXCEPT ![userId] = hashSync(newPassword)]]

\* attemptLocalLogin({email, password}): 423 when the account is locked, null
\* when the email or the password is wrong, the user otherwise
attemptLocalLogin(methods, locks, email, password) ==
    IF email \in locks THEN "locked"
    ELSE IF email \notin DbUserIds THEN Null
    ELSE IF methods[email] = NoAuthMethod THEN Null
    ELSE IF ~compareSync(IF password = Null THEN "" ELSE password, methods[email])
    THEN Null
    ELSE email

\* POST /api/auth/password
ChangePassword(userId, currentPassword, newPassword) ==
    /\ last = NoResponse
    /\ LET r == changeLocalPassword(authMethods, userId, currentPassword, newPassword)
       IN  /\ authMethods' = r.authMethods
           /\ last' = [op |-> "changePassword", userId |-> userId,
                       currentPassword |-> currentPassword,
                       newPassword |-> newPassword,
                       error |-> r.error, message |-> r.message,
                       status |-> IF r.error = Null THEN 204 ELSE statusCode(r.error)]
    /\ UNCHANGED <<rules, shares, userVolumes, now, featureUserVolumes, writableAtCreate>>
    /\ UNCHANGED <<authLocks, userSettings, systemSettings, fsEntries>>

\* POST /api/auth/login: a failed attempt is counted and may lock the account,
\* a successful one clears the lock state
Login(email, password, locks) ==
    /\ last = NoResponse
    /\ LET user == attemptLocalLogin(authMethods, authLocks, email, password)
       IN  /\ last' = [op |-> "login", email |-> email, password |-> password,
                       user |-> user]
           /\ authLocks' = IF user = Null THEN authLocks \cup ({email} \cap locks)
                           ELSE IF user = "locked" THEN authLocks
                           ELSE authLocks \ {email}
    /\ UNCHANGED <<rules, shares, userVolumes, now, featureUserVolumes, writableAtCreate>>
    /\ UNCHANGED <<authMethods, userSettings, systemSettings, fsEntries>>

\* locked_until passes
LockExpires(email) ==
    /\ last = NoResponse
    /\ email \in authLocks
    /\ authLocks' = authLocks \ {email}
    /\ UNCHANGED <<rules, shares, userVolumes, now, featureUserVolumes, last, writableAtCreate>>
    /\ UNCHANGED <<authMethods, userSettings, systemSettings, fsEntries>>

NextAuth ==
    \/ \E userId \in AccountIds, currentPassword, newPassword \in Passwords \cup {Null} :
          ChangePassword(userId, currentPassword, newPassword)
    \/ \E email \in AccountIds, password \in Passwords \cup {Null},
          locks \in {{}, AccountIds} :
          Login(email, password, locks)
    \/ \E email \in AccountIds : LockExpires(email)
    \/ Respond

SpecAuth == Init /\ [][NextAuth]_vars

-----------------------------------------------------------------------------
(* routes/files/preview.js: GET /browse/*, one awaited call per step *)

BrowsePaths == {<<"d">>, <<"personal">>}

\* every fs.stat of the listing succeeds
StatOk == [name \in {DirEntries[i] : i \in 1..Len(DirEntries)} |-> "OK"]

\* the entries listDirectoryItems keeps with excludeDownloadArtifacts: true
browseFiltered ==
    SelectSeq(DirEntries,
        LAMBDA name : name \notin excludedFiles /\ extnameLower(name) # ".download")

\* the rule list a decision of the listing is evaluated against: the snapshot
\* when a permissionResolver was built from it, the stored rules otherwise
rulesInEffect(permissionRules, st) ==
    IF Len(permissionRules) > 0 THEN permissionRules ELSE getRules(st.rules)

\* const settings = await getSettings()
BrowseStart(context, rawPath) ==
    /\ last = NoResponse
    /\ last' = [op |-> "browsing", pc |-> "resolve", context |-> context,
                path |-> normalizeRelativePath(rawPath),
                permissionRules |-> getRules(rules),
                rulesUsed |-> <<>>, pending |-> <<>>, items |-> <<>>,
                status |-> 0]
    /\ UNCHANGED <<rules, shares, userVolumes, now, featureUserVolumes, writableAtCreate>>
    /\ UNCHANGED routeStores

\* await resolvePathWithAccess(context, inputRelativePath): no options, so the
\* decision fetches the stored rules
BrowseResolve ==
    /\ last.op = "browsing"
    /\ last.pc = "resolve"
    /\ LET accessInfo == getAccessInfo(last.context, last.path, NoOptions, World)
       IN  last' = IF accessInfo.canAccess
                   THEN [last EXCEPT !.pc = "children",
                                     !.rulesUsed = <<getRules(rules)>>,
                                     !.pending = browseFiltered]
                   ELSE [last EXCEPT !.op = "browse", !.pc = "done",
                                     !.rulesUsed = <<getRules(rules)>>,
                                     !.status = 404]
    /\ UNCHANGED <<rules, shares, userVolumes, now, featureUserVolumes, writableAtCreate>>
    /\ UNCHANGED routeStores

\* one callback of filtered.map: await getAccessInfo(context, logicalChildPath,
\* accessOptions)
BrowseChild ==
    /\ last.op = "browsing"
    /\ last.pc = "children"
    /\ last.pending # <<>>
    /\ LET name == Head(last.pending)
           accessOptions ==
               listingOptions(last.permissionRules, NoCache(Tokens, NoShare),
                              NoCache(VolumeIds, NoVolume))
           child == listChild(name, last.path, last.context, accessOptions,
                              StatOk, World)
       IN  last' = [last EXCEPT
                       !.pending = Tail(last.pending),
                       !.rulesUsed =
                           Append(last.rulesUsed,
                                  rulesInEffect(last.permissionRules, World)),
                       !.items = IF child = "keep" THEN Append(last.items, name)
                                 ELSE last.items]
    /\ UNCHANGED <<rules, shares, userVolumes, now, featureUserVolumes, writableAtCreate>>
    /\ UNCHANGED routeStores

\* res.json(response)
BrowseFinish ==
    /\ last.op = "browsing"
    /\ last.pc = "children"
    /\ last.pending = <<>>
    /\ last' = [last EXCEPT !.op = "browse", !.pc = "done", !.status = 200]
    /\ UNCHANGED <<rules, shares, userVolumes, now, featureUserVolumes, writableAtCreate>>
    /\ UNCHANGED routeStores

\* an administrator stores other rules while the listing awaits a collaborator
setRulesWhileBrowsing(rawRules) ==
    /\ last.op = "browsing"
    /\ sanitizeAccessRules(rawRules) # rules
    /\ rules' = sanitizeAccessRules(rawRules)
    /\ UNCHANGED <<shares, userVolumes, now, featureUserVolumes, last, writableAtCreate>>
    /\ UNCHANGED routeStores

NextBrowse ==
    \/ \E context \in PlainContexts, rawPath \in BrowsePaths :
          BrowseStart(context, rawPath)
    \/ BrowseResolve
    \/ BrowseChild
    \/ BrowseFinish
    \/ Respond
    \/ \E rawRules \in SeqsUpTo(RawRules, MaxRules) : setRules(rawRules)
    \/ \E rawRules \in SeqsUpTo(RawRules, MaxRules) : setRulesWhileBrowsing(rawRules)

SpecBrowse == Init /\ [][NextBrowse]_vars

-----------------------------------------------------------------------------
(* routes/files/folder.js and routes/files/rename.js *)

\* pathExists(absolutePath)
pathExists(fs, absolutePath) == \E e \in fs : e.path = absolutePath

\* fs.stat(absolutePath).isDirectory()
isDirectory(fs, absolutePath) == \E e \in fs : e.path = absolutePath /\ e.isDirectory

\* ensureValidName(name): the name, or Null when it throws a ValidationError
ensureValidName(name) == IF name \in {"", "a/b"} THEN Null ELSE name

\* findAvailableFolderName(parentAbsolute, baseName): the first free name
findAvailableFolderName(fs, parentAbsolute, baseName) ==
    IF ~pathExists(fs, parentAbsolute \o <<baseName>>) THEN baseName
    ELSE IF baseName = "Untitled Folder" THEN "Untitled Folder 2"
    ELSE "Untitled Folder"

\* fs.mkdir(folderAbsolute)
mkdir(fs, folderAbsolute) == fs \cup {[path |-> folderAbsolute, isDirectory |-> TRUE]}

\* fs.rename(currentAbsolute, targetAbsolute): the entry and what lies below it
rename(fs, currentAbsolute, targetAbsolute) ==
    LET below(e) ==
            /\ Len(e.path) >= Len(currentAbsolute)
            /\ SubSeq(e.path, 1, Len(currentAbsolute)) = currentAbsolute
        moved(e) ==
            [e EXCEPT !.path =
                targetAbsolute
                \o SubSeq(e.path, Len(currentAbsolute) + 1, Len(e.path))]
    IN  {e \in fs : ~below(e)} \cup {moved(e) : e \in {f \in fs : below(f)}}

\* [error, message] of a failed request, fs untouched
failed(fs, error) == [error |-> error, fsEntries |-> fs]

\* POST /files/folder after the authorization `auth` of the parent
createFolderSteps(auth, parentRelative, requestedName, fs) ==
    LET parentAbsolute == CHOOSE p \in auth.resolved : TRUE
        baseName == IF requestedName # Null /\ requestedName # ""
                    THEN ensureValidName(requestedName) ELSE "Untitled Folder"
        finalName == findAvailableFolderName(fs, parentAbsolute, baseName)
    IN  IF parentRelative = <<>> THEN failed(fs, "ValidationError")
        ELSE IF ~auth.allowed \/ auth.resolved = {} THEN failed(fs, "ForbiddenError")
        ELSE IF ~pathExists(fs, parentAbsolute) THEN failed(fs, "NotFoundError")
        ELSE IF ~isDirectory(fs, parentAbsolute) THEN failed(fs, "ValidationError")
        ELSE IF baseName = Null THEN failed(fs, "ValidationError")
        ELSE [error |-> Null,
              fsEntries |-> mkdir(fs, parentAbsolute \o <<finalName>>)]

\* POST /files/folder: the error thrown (Null on 201) and the filesystem afterwards
createFolder(context, destination, requestedName, found, fs, st) ==
    createFolderSteps(authorizeAndResolve(context, normalizeRelativePath(destination),
                                          "createFolder", NoOptions, st, found),
                      normalizeRelativePath(destination), requestedName, fs)

\* POST /files/rename after the authorizations of the parent, of the current
\* item and of the target name
renameSteps(parent, current, target, originalName, newNameRaw, fs) ==
    LET parentAbsolute == CHOOSE p \in parent.resolved : TRUE
        currentAbsolute == CHOOSE p \in current.resolved : TRUE
        validatedNewName == IF newNameRaw # Null THEN ensureValidName(newNameRaw)
                            ELSE Null
        targetAbsolute == parentAbsolute \o <<validatedNewName>>
    IN  IF originalName = Null \/ originalName = "" THEN failed(fs, "ValidationError")
        ELSE IF ~parent.allowed \/ parent.resolved = {}
        THEN failed(fs, "ForbiddenError")
        ELSE IF ~current.allowed \/ current.resolved = {}
        THEN failed(fs, "ForbiddenError")
        ELSE IF ~pathExists(fs, currentAbsolute) THEN failed(fs, "NotFoundError")
        ELSE IF validatedNewName = Null THEN failed(fs, "ValidationError")
        ELSE IF validatedNewName = originalName THEN [error |-> Null, fsEntries |-> fs]
        ELSE IF ~target.allowed THEN failed(fs, "ForbiddenError")
        ELSE IF pathExists(fs, targetAbsolute) THEN failed(fs, "ConflictError")
        ELSE [error |-> Null,
              fsEntries |-> rename(fs, currentAbsolute, targetAbsolute)]

\* the target name of a rename request as the route authorizes it
renameTarget(parentPath, newNameRaw) ==
    combineRelativePath(normalizeRelativePath(parentPath),
        <<IF newNameRaw # Null THEN ensureValidName(newNameRaw) ELSE Null>>)

\* mutant: the target name is not authorized
renameItem_targetUnchecked(context, parentPath, originalName, newNameRaw, found, fs, st) ==
    renameSteps(
        authorizeAndResolve(context, normalizeRelativePath(parentPath), "write",
                            NoOptions, st, found),
        authorizeAndResolve(context,
                            combineRelativePath(normalizeRelativePath(parentPath),
                                                <<originalName>>),
                            "write", NoOptions, st, found),
        [allowed |-> TRUE], originalName, newNameRaw, fs)

\* POST /files/rename: the error thrown (Null on success) and the filesystem
\* afterwards
renameItem(context, parentPath, originalName, newNameRaw, found, fs, st) ==
    renameSteps(
        authorizeAndResolve(context, normalizeRelativePath(parentPath), "write",
                            NoOptions, st, found),
        authorizeAndResolve(context,
                            combineRelativePath(normalizeRelativePath(parentPath),
                                                <<originalName>>),
                            "write", NoOptions, st, found),
        authorizePath(context, renameTarget(parentPath, newNameRaw), "write",
                      NoOptions, st),
        originalName, newNameRaw, fs)

FileParents == {<<>>, <<"d">>, <<"personal">>, <<"d", "..">>}

FileNames == {"s", "n", "a/b", "", Null}

\* the rule lists stored while files are created and renamed
FileRawRules ==
    {[path |-> <<"d">>, recursive |-> TRUE, permissions |-> "ro"],
     [path |-> <<"d", "n">>, recursive |-> FALSE, permissions |-> "ro"],
     [path |-> <<"d", "s">>, recursive |-> FALSE, permissions |-> "hidden"]}

\* the requests stop once the tree holds MaxFsEntries entries
MaxFsEntries == 4

CreateFolder(context, destination, requestedName, found) ==
    /\ last = NoResponse
    /\ Cardinality(fsEntries) < MaxFsEntries
    /\ IF IsTraversal(destination)
       THEN /\ last' = [op |-> "throw", context |-> context, path |-> destination,
                        cached |-> FALSE, error |-> "Invalid path"]
            /\ fsEntries' = fsEntries
       ELSE LET r == createFolder(context, destination, requestedName, found,
                                  fsEntries, World)
            IN  /\ last' = [op |-> "createFolder", context |-> context,
                            path |-> destination, name |-> requestedName,
                            found |-> found, error |-> r.error]
                /\ fsEntries' = r.fsEntries
    /\ UNCHANGED <<rules, shares, userVolumes, now, featureUserVolumes, writableAtCreate>>
    /\ UNCHANGED <<authMethods, authLocks, userSettings, systemSettings>>

Rename(context, parentPath, originalName, newNameRaw, found) ==
    /\ last = NoResponse
    /\ IF IsTraversal(parentPath)
       THEN /\ last' = [op |-> "throw", context |-> context, path |-> parentPath,
                        cached |-> FALSE, error |-> "Invalid path"]
            /\ fsEntries' = fsEntries
       ELSE LET r == renameItem(context, parentPath, originalName, newNameRaw,
                                found, fsEntries, World)
            IN  /\ last' = [op |-> "rename", context |-> context,
                            path |-> parentPath, name |-> originalName,
                            newName |-> newNameRaw, found |-> found,
                            error |-> r.error]
                /\ fsEntries' = r.fsEntries
    /\ UNCHANGED <<rules, shares, userVolumes, now, featureUserVolumes, writableAtCreate>>
    /\ UNCHANGED <<authMethods, authLocks, userSettings, systemSettings>>

NextFiles ==
    \/ \E context \in PlainContexts, destination \in FileParents,
          requestedName \in FileNames, found \in BOOLEAN :
          CreateFolder(context, destination, requestedName, found)
    \/ \E context \in PlainContexts, parentPath \in FileParents,
          originalName, newNameRaw \in FileNames, found \in BOOLEAN :
          Rename(context, parentPath, originalName, newNameRaw, found)
    \/ Respond
    \/ \E rawRules \in SeqsUpTo(FileRawRules, MaxRules) : setRules(rawRules)

SpecFiles == Init /\ [][NextFiles]_vars

-----------------------------------------------------------------------------
(* accessManager.js: canCreateShare *)

\* "Check if user can create shares (only authenticated users, not guests)"
canCreateShare(context) ==
    IF HasGuest(context) THEN FALSE ELSE HasUser(context)

\* the share routes ask before they create a share
CanCreateShare(context) ==
    /\ last = NoResponse
    /\ last' = [op |-> "canCreateShare", context |-> context,
                result |-> canCreateShare(context)]
    /\ UNCHANGED <<rules, shares, userVolumes, now, featureUserVolumes, writableAtCreate>>
    /\ UNCHANGED routeStores

NextShareCreation ==
    \/ \E context \in Contexts : CanCreateShare(context)
    \/ Respond
    \/ \E share \in ShareRecords : createShare(share)

SpecShareCreation == Init /\ [][NextShareCreation]_vars

-----------------------------------------------------------------------------
(* routes/settings.js: PATCH /settings; JSON values are written as text *)

\* Boolean(value) as JSON
jsonBoolean(value) == IF value \in {"false", "null", "0", "''"} THEN "false" ELSE "true"

\* the sanitized defaultShareExpiration as JSON: {value, unit} with a positive
\* number floored and a unit of days, weeks or months (weeks otherwise), or null
jsonExpiration(value) ==
    CASE value = "{value:3,unit:'days'}" -> "{value:3,unit:'days'}"
      [] value = "{value:2.5,unit:'years'}" -> "{value:2,unit:'weeks'}"
      [] OTHER -> "null"

\* setUserSetting(userId, key, value): the value_json stored in the row
sanitizeUserSetting(key, value) ==
    IF key \in {"showHiddenFiles", "showThumbnails"} THEN jsonBoolean(value)
    ELSE IF key = "defaultShareExpiration" THEN jsonExpiration(value)
    ELSE IF value = "null" THEN "null"
    ELSE jsonBoolean(value)

\* sanitizeThumbnails over the stored row and the update; {} is a missing field
sanitizeThumbnails(thumbnails) ==
    [enabled |-> IF thumbnails.enabled = {} THEN TRUE
                 ELSE CHOOSE b \in thumbnails.enabled : TRUE,
     size |-> IF thumbnails.size = {} THEN 200
              ELSE LET n == CHOOSE n \in thumbnails.size : TRUE
                   IN  IF n < 64 THEN 64 ELSE IF n > 1024 THEN 1024 ELSE n]

\* sanitizeBranding
sanitizeBranding(branding) ==
    [appName |-> IF branding.appName = {} THEN "Explorer"
                 ELSE CHOOSE s \in branding.appName : TRUE]

\* getSettings().thumbnails and getSettings().branding: the row or the defaults
currentThumbnails(system) ==
    IF system.thumbnails = {} THEN sanitizeThumbnails([enabled |-> {}, size |-> {}])
    ELSE CHOOSE row \in system.thumbnails : TRUE

currentBranding(system) ==
    IF system.branding = {} THEN sanitizeBranding([appName |-> {}])
    ELSE CHOOSE row \in system.branding : TRUE

\* a field of the update, or the current value when the update lacks it
merged(update, current) == IF update = {} THEN {current} ELSE update

\* the user_settings rows after the loop over Object.entries(payload.user)
userSettingsAfter(settings, user, payload) ==
    IF payload.user = {} \/ user = NoUser \/ user.id = "" THEN settings
    ELSE LET updates == CHOOSE u \in payload.user : TRUE
         IN  [settings EXCEPT ![user.id] =
                 [key \in UserSettingKeys |->
                     IF key \in DOMAIN updates
                     THEN sanitizeUserSetting(key, updates[key])
                     ELSE settings[user.id][key]]]

\* the thumbnails and branding rows after the admin-only block
systemSettingsAfter(system, payload) ==
    LET thumbnails == CHOOSE t \in payload.thumbnails : TRUE
        branding == CHOOSE b \in payload.branding : TRUE
    IN  [thumbnails |->
            IF payload.thumbnails = {} \/ (thumbnails.enabled = {} /\ thumbnails.size = {})
            THEN system.thumbnails
            ELSE {sanitizeThumbnails(
                     [enabled |-> merged(thumbnails.enabled,
                                         currentThumbnails(system).enabled),
                      size |-> merged(thumbnails.size,
                                      currentThumbnails(system).size)])},
         branding |->
            IF payload.branding = {} \/ branding.appName = {}
            THEN system.branding
            ELSE {sanitizeBranding([appName |-> branding.appName])}]

\* the system/access row after the admin-only block
accessRulesAfter(storedRules, payload) ==
    IF payload.access = {} THEN storedRules
    ELSE sanitizeAccessRules((CHOOSE a \in payload.access : TRUE).rules)

\* PATCH /settings: the status and the stored settings afterwards
patchSettings(user, payload, settings, system, storedRules) ==
    IF "admin" \in user.roles
    THEN [status |-> 200, userSettings |-> userSettingsAfter(settings, user, payload),
          systemSettings |-> systemSettingsAfter(system, payload),
          rules |-> accessRulesAfter(storedRules, payload)]
    ELSE IF payload.thumbnails # {} \/ payload.access # {} \/ payload.branding # {}
    THEN [status |-> 403, userSettings |-> userSettingsAfter(settings, user, payload),
          systemSettings |-> system, rules |-> storedRules]
    ELSE [status |-> 200, userSettings |-> userSettingsAfter(settings, user, payload),
          systemSettings |-> system, rules |-> storedRules]

\* request bodies; {} is a missing field, "theme" a key the route ignores
PayloadUsers ==
    {("showHiddenFiles" :> "true") @@ ("theme" :> "'dark'"),
     ("skipHome" :> "0") @@ ("defaultShareExpiration" :> "{value:2.5,unit:'years'}")}

SettingsPayloads ==
    [user : {{}} \cup {{u} : u \in PayloadUsers},
     thumbnails : {{}, {[enabled |-> {FALSE}, size |-> {5000}]}},
     access : {{}, {[rules |-> <<[path |-> <<"d">>, recursive |-> TRUE,
                                 permissions |-> "ro"]>>]}},
     branding : {{}, {[appName |-> {"Files"}]}}]

PatchSettings(user, payload) ==
    /\ last = NoResponse
    /\ LET r == patchSettings(user, payload, userSettings, systemSettings, rules)
       IN  /\ userSettings' = r.userSettings
           /\ systemSettings' = r.systemSettings
           /\ rules' = r.rules
           /\ last' = [op |-> "patchSettings", user |-> user, payload |-> payload,
                       status |-> r.status]
    /\ UNCHANGED <<shares, userVolumes, now, featureUserVolumes, writableAtCreate>>
    /\ UNCHANGED <<authMethods, authLocks, fsEntries>>

NextSettings ==
    \/ \E user \in {alice, root, NoUser}, payload \in SettingsPayloads :
          PatchSettings(user, payload)
    \/ Respond

SpecSettings == Init /\ [][NextSettings]_vars

-----------------------------------------------------------------------------
(* The rule resolver on its own: createPermissionResolver(rules)(path) *)

ResolverRules ==
    {[path |-> <<"a">>, recursive |-> TRUE, permissions |-> "ro"],
     [path |-> <<"a">>, recursive |-> FALSE, permissions |-> "hidden"],
     [path |-> <<"a", "b">>, recursive |-> FALSE, permissions |-> "rw"],
     [path |-> <<"a", "b">>, recursive |-> TRUE, permissions |-> "hidden"],
     [path |-> <<"a", "b">>, recursive |-> TRUE, permissions |-> "ro"],
     [path |-> <<"a", "", "b">>, recursive |-> FALSE, permissions |-> "ro"],
     [path |-> <<"">>, recursive |-> TRUE, permissions |-> "hidden"]}

ResolverPaths ==
    {<<"a">>, <<"a", "b">>, <<"a", "b", "c">>, <<"c">>, <<"", "a", "b", "">>,
     <<"a", "b", "c", "d.txt">>, <<"a", "bc">>}

InitResolver ==
    /\ rules \in SeqsUpTo(ResolverRules, MaxRuleList)
    /\ shares = [t \in Tokens |-> NoShare]
    /\ userVolumes = [v \in VolumeIds |-> NoVolume]
    /\ now = 0
    /\ featureUserVolumes = FALSE
    /\ last = NoResponse
    /\ writableAtCreate = [t \in Tokens |-> FALSE]
    /\ authMethods = InitialAuthMethods
    /\ authLocks = {}
    /\ userSettings = InitialUserSettings
    /\ systemSettings = InitialSystemSettings
    /\ fsEntries = InitialFsEntries

Resolve(relativePath) ==
    /\ last = NoResponse
    /\ last' = [op |-> "resolve", path |-> relativePath,
                permission |-> createPermissionResolver(rules, relativePath)]
    /\ UNCHANGED <<rules, shares, userVolumes, now, featureUserVolumes, writableAtCreate>>
    /\ UNCHANGED routeStores

NextResolver ==
    \/ \E relativePath \in ResolverPaths : Resolve(relativePath)
    \/ Respond

SpecResolver == InitResolver /\ [][NextResolver]_vars

-----------------------------------------------------------------------------
(* Claims *)

IsDecide == last.op = "decide"
Caller == last.context
Decision == last.decision
Parsed == parsePathSpace(last.path)
OnVolume == IsDecide /\ Parsed.space = "volume"
OnPersonal == IsDecide /\ Parsed.space = "personal"

\* the stored share a share path names
OnShare ==
    /\ IsDecide
    /\ Parsed.space = "share"
    /\ Parsed.shareToken \in Tokens
    /\ shares[Parsed.shareToken] # NoShare
Shared == shares[Parsed.shareToken]

GuestOnly(context) == context.user = NoUser /\ context.guestSession # NoGuest
Authenticated(context) == context.user \in Users
IsAdmin(context) == Authenticated(context) /\ "admin" \in context.user.roles

RulePermission(path) == getPermissionForPath(rules, path)

NoWriteFlags(d) == ~d.canWrite /\ ~d.canDelete /\ ~d.canUpload /\ ~d.canCreateFolder
AllWriteFlags(d) == d.canWrite /\ d.canDelete /\ d.canUpload /\ d.canCreateFolder

\* the share is of the data model and its source can be located
HasSource(share) ==
    \/ share.sourceSpace = "volume"
    \/ /\ share.sourceSpace = "user_volume"
       /\ share.sourcePath # <<>>
       /\ share.sourcePath[1] \in VolumeIds
       /\ userVolumes[share.sourcePath[1]] # NoVolume
SourceVolume(share) == userVolumes[share.sourcePath[1]]

\* the share's source path, joined with the inner path for a directory share
SourceRulePath(share, innerPath) ==
    LET base == IF share.sourceSpace = "volume" THEN share.sourcePath
                ELSE <<SourceVolume(share).label>> \o Tail(share.sourcePath)
    IN  IF share.isDirectory THEN base \o innerPath ELSE base

SourceReadOnly(share, innerPath) ==
    /\ HasSource(share)
    /\ \/ RulePermission(SourceRulePath(share, innerPath)) = "ro"
       \/ /\ share.sourceSpace = "user_volume"
          /\ SourceVolume(share).accessMode = "readonly"

\* C1: a decision on a volume path whose rule permission is `hidden` has
\* canAccess = FALSE for every caller, administrators included, with the
\* user-volumes feature enabled or disabled.
C1_HiddenDeniesEveryCaller ==
    (OnVolume /\ RulePermission(Parsed.rel) = "hidden") => ~Decision.canAccess

C1_Witness_AdminDeniedOnHidden ==
    /\ OnVolume
    /\ RulePermission(Parsed.rel) = "hidden"
    /\ IsAdmin(Caller)
    /\ Decision.denialReason = "Path is hidden"

\* C2: capping law. A decision on a readwrite share whose source is read-only
\* (rule permission `ro` on the underlying path, or a readonly owning user
\* volume) has canWrite, canDelete, canUpload and canCreateFolder all FALSE for
\* every caller; and a share decision has canWrite only if the share is
\* readwrite and its source is not read-only.
C2_ShareWriteIsCapped ==
    OnShare =>
        /\ (Shared.accessMode = "readwrite" /\ SourceReadOnly(Shared, Parsed.innerPath))
              => NoWriteFlags(Decision)
        /\ (Shared.sourceSpace \in {"volume", "user_volume"} /\ Decision.canWrite)
              => /\ Shared.accessMode = "readwrite"
                 /\ ~SourceReadOnly(Shared, Parsed.innerPath)

C2_Witness_GuestOnReadOnlySource ==
    /\ OnShare
    /\ GuestOnly(Caller)
    /\ Shared.accessMode = "readwrite"
    /\ Shared.sharingType = "anyone"
    /\ Shared.sourceSpace = "volume"
    /\ RulePermission(SourceRulePath(Shared, Parsed.innerPath)) = "ro"
    /\ Decision.canAccess
    /\ ~Decision.canWrite

\* the decision in `last` is on a share that granted write when it was created
\* and whose source is read-only now
C3_Capped ==
    (/\ OnShare
     /\ writableAtCreate[Parsed.shareToken]
     /\ SourceReadOnly(Shared, Parsed.innerPath)) => ~Decision.canWrite

\* C3: retroactive capping. No operation, a rule change and a decision included,
\* modifies a stored share record, and every decision computed for a share that
\* granted write when it was created and whose underlying path has since become
\* `ro` (or whose owning user volume has become readonly) has canWrite = FALSE.
C3_RetroactiveCapping ==
    [][/\ \A t \in Tokens : shares[t] # NoShare => shares'[t] = shares[t]
       /\ C3_Capped']_vars

C3_Witness_CappedAfterRuleChange ==
    /\ OnShare
    /\ writableAtCreate[Parsed.shareToken]
    /\ Shared.accessMode = "readwrite"
    /\ Shared.sourceSpace = "volume"
    /\ RulePermission(SourceRulePath(Shared, Parsed.innerPath)) = "ro"
    /\ Decision.canAccess
    /\ ~Decision.canWrite

\* C4: a decision on a share of the data model (source space volume or
\* user_volume) whose underlying path, the source path joined with the inner
\* path for a directory share, has rule permission `hidden` is denied, whatever
\* the share's access mode and sharing type and whoever the caller, the owner
\* included, also for a direct request of a nested path.
C4_HiddenSourceDeniesShare ==
    (/\ OnShare
     /\ HasSource(Shared)
     /\ RulePermission(SourceRulePath(Shared, Parsed.innerPath)) = "hidden")
        => ~Decision.canAccess

C4_Witness_OwnerDeniedOnNestedHidden ==
    /\ OnShare
    /\ Parsed.innerPath # <<>>
    /\ Shared.isDirectory
    /\ Shared.sourceSpace = "volume"
    /\ Shared.accessMode = "readwrite"
    /\ Authenticated(Caller)
    /\ Caller.user.id = Shared.ownerId
    /\ RulePermission(Shared.sourcePath) # "hidden"
    /\ RulePermission(SourceRulePath(Shared, Parsed.innerPath)) = "hidden"
    /\ Decision.denialReason = "Path is hidden"

\* C5: for a guest (a guest session and no authenticated user) every decision
\* on a volume path and on a personal path is denied; on the path of an `anyone`
\* share whose id is the guest session's, the guest gets the decision the share
\* logic gives an authenticated caller who is not the owner.
C5_GuestsOnlyReachTheirShare ==
    (IsDecide /\ GuestOnly(Caller)) =>
        /\ (Parsed.space \in {"volume", "personal"}) => ~Decision.canAccess
        /\ (/\ OnShare
            /\ Shared.sharingType = "anyone"
            /\ Caller.guestSession.shareId = Shared.id)
              => Decision = getAccessInfo([user |-> bob, guestSession |-> NoGuest],
                                          last.path, requestOptions(last.cached), World)

C5_Witness_GuestDeniedOnPersonal ==
    /\ OnPersonal
    /\ GuestOnly(Caller)
    /\ Decision.denialReason = "Guests cannot access personal folders"

\* the volume assigned to the caller for the path of the decision
AssignedVolumes ==
    {v \in VolumeIds : /\ userVolumes[v] # NoVolume
                       /\ userVolumes[v].userId = Caller.user.id
                       /\ userVolumes[v].label = Parsed.rel[1]}

\* C6 as stated: for every authenticated non-admin caller and every volume path
\* whose rule permission is `ro`, the four write flags are FALSE and canRead is
\* TRUE, in both branches of the user-volumes feature.
C6_Original_ReadOnlyStillReadable ==
    (OnVolume /\ Authenticated(Caller) /\ ~IsAdmin(Caller)
     /\ RulePermission(Parsed.rel) = "ro")
        => NoWriteFlags(Decision) /\ Decision.canRead

\* C6 (amended): for every non-admin caller and every volume path whose rule
\* permission is `ro`, the four write flags are FALSE; canRead is TRUE exactly
\* when the caller is authenticated and, with user volumes enabled, a user
\* volume is assigned to the caller for the path.
C6_ReadOnlyRuleForNonAdmins ==
    (OnVolume /\ ~IsAdmin(Caller) /\ RulePermission(Parsed.rel) = "ro")
        => /\ NoWriteFlags(Decision)
           /\ Decision.canRead <=>
                 /\ Authenticated(Caller)
                 /\ featureUserVolumes => AssignedVolumes # {}

C6_Witness_AssignedVolumeReadOnlyByRule ==
    /\ OnVolume
    /\ featureUserVolumes
    /\ Authenticated(Caller) /\ ~IsAdmin(Caller)
    /\ AssignedVolumes # {}
    /\ \A v \in AssignedVolumes : userVolumes[v].accessMode = "readwrite"
    /\ RulePermission(Parsed.rel) = "ro"
    /\ Decision.canRead
    /\ ~Decision.canWrite

\* C7: for an administrator a decision on a volume path whose rule permission
\* is `ro` grants access with canWrite, canDelete, canUpload and
\* canCreateFolder all TRUE, whether or not a user volume is assigned.
C7_AdminBypassesReadOnly ==
    (OnVolume /\ IsAdmin(Caller) /\ RulePermission(Parsed.rel) = "ro")
        => Decision.canAccess /\ AllWriteFlags(Decision)

C7_Witness_AdminWritesWithoutVolume ==
    /\ OnVolume
    /\ IsAdmin(Caller)
    /\ featureUserVolumes
    /\ \A v \in VolumeIds : userVolumes[v] = NoVolume
    /\ RulePermission(Parsed.rel) = "ro"
    /\ Decision.canWrite

\* C8: a decision on an expired share (now >= expiresAt) is denied with the
\* reason "Share has expired", for both sharing types and every caller, also
\* when the share record comes from the request's share cache.
C8_ExpiredShareDenied ==
    (OnShare /\ \E e \in Shared.expiresAt : now >= e)
        => /\ ~Decision.canAccess
           /\ Decision.denialReason = "Share has expired"

C8_Witness_ExpiredFromCache ==
    /\ OnShare
    /\ last.cached
    /\ \E e \in Shared.expiresAt : now >= e
    /\ Authenticated(Caller)
    /\ Caller.user.id = Shared.ownerId
    /\ Decision.denialReason = "Share has expired"

IsListing == last.op = "list" /\ last.result.status = "ok"
ListedNames == [i \in 1..Len(last.result.items) |-> last.result.items[i].name]

ExcludedName(name) ==
    \/ name = ".DS_Store"
    \/ last.excludeDownloadArtifacts /\ name \in {"p.download", "Q.DOWNLOAD"}

\* C9: a listing returns, in directory order, exactly the entries that are not
\* excluded names, whose stat succeeds and whose single-path decision
\* decide(context, join(parentLogicalPath, name)) grants access.
C9_ListingIsDecisionFiltered ==
    IsListing =>
        ListedNames =
            SelectSeq(DirEntries,
                LAMBDA name :
                    /\ ~ExcludedName(name)
                    /\ last.statOf[name] = "OK"
                    /\ getAccessInfo(last.context, last.path \o <<name>>,
                                     NoOptions, World).canAccess)

C9_Witness_HiddenChildOfShareOmitted ==
    /\ IsListing
    /\ last.path = <<"share", "t1">>
    /\ GuestOnly(last.context)
    /\ RulePermission(<<"d", "s">>) = "hidden"
    /\ \E i \in 1..Len(ListedNames) : ListedNames[i] = "x"
    /\ \A i \in 1..Len(ListedNames) : ListedNames[i] # "s"

\* the rules of the list that match the resolved path, by position
MatchingRules ==
    {i \in 1..Len(rules) : RuleMatches(rules[i], normalizeRelativePath(last.path))}

\* C10: the resolver returns the permission of the first rule, in stored
\* order, that matches the path, and `rw` when no rule matches; a later rule
\* never overrides an earlier matching one.
C10_FirstMatchWins ==
    last.op = "resolve" =>
        last.permission =
            IF MatchingRules = {} THEN "rw"
            ELSE rules[CHOOSE i \in MatchingRules :
                          \A j \in MatchingRules : i <= j].permissions

C10_Witness_EarlierRecursiveRuleWins ==
    /\ last.op = "resolve"
    /\ rules = <<[path |-> <<"a">>, recursive |-> TRUE, permissions |-> "ro"],
                 [path |-> <<"a", "b">>, recursive |-> FALSE, permissions |-> "rw"]>>
    /\ last.path = <<"a", "b">>
    /\ last.permission = "ro"

\* the rule path equals the path, or the rule is recursive and the path lies
\* below the rule path, segment by segment
SegmentMatch(rule, rel) ==
    LET rulePath == normalizeRelativePath(rule.path)
    IN  /\ rulePath # <<>>
        /\ \/ rel = rulePath
           \/ /\ rule.recursive
              /\ Len(rel) > Len(rulePath)
              /\ \A i \in 1..Len(rulePath) : rel[i] = rulePath[i]

SegmentMatching ==
    {i \in 1..Len(rules) : SegmentMatch(rules[i], normalizeRelativePath(last.path))}

\* C11: a rule (with a non-empty path) matches a path exactly when the path
\* equals the rule path, or the rule is recursive and the path is a
\* segment-aligned descendant of it; the resolver's answer is the permission of
\* the first rule matching in that sense, so a non-recursive rule on a/b does
\* not affect a/b/c/d.txt and a recursive rule on a/b never matches a/bc.
C11_SegmentAlignedMatching ==
    last.op = "resolve" =>
        last.permission =
            IF SegmentMatching = {} THEN "rw"
            ELSE rules[CHOOSE i \in SegmentMatching :
                          \A j \in SegmentMatching : i <= j].permissions

C11_Witness_SiblingNotMatched ==
    /\ last.op = "resolve"
    /\ rules = <<[path |-> <<"a", "b">>, recursive |-> TRUE, permissions |-> "ro"]>>
    /\ last.path = <<"a", "bc">>
    /\ last.permission = "rw"

\* C12: every policy outcome of the engine is a decision value, an exception
\* is raised only for a path traversal attempt, and the value is well-formed:
\* canAccess = FALSE implies that all seven capability flags are FALSE, that
\* effectivePermission is `hidden` and that denialReason is a non-empty text;
\* canAccess = TRUE implies that denialReason is null.
C12_DenialIsWellFormedValue ==
    /\ last.op = "throw" => IsTraversal(last.path)
    /\ IsDecide =>
          /\ ~Decision.canAccess =>
                /\ ~Decision.canRead /\ NoWriteFlags(Decision)
                /\ ~Decision.canShare /\ ~Decision.canDownload
                /\ Decision.effectivePermission = "hidden"
                /\ Decision.denialReason \notin {Null, ""}
          /\ Decision.canAccess => Decision.denialReason = Null

C12_Witness_DeniedWithReason ==
    /\ OnShare
    /\ Shared.sharingType = "users"
    /\ Authenticated(Caller)
    /\ ~Decision.canAccess
    /\ Decision.denialReason = "Access denied"

IsAuthorize == last.op = "authorize"
IsAuthorizeAndResolve == last.op = "authorizeAndResolve"

\* the decision of the engine for the request in `last`
EngineDecision == getAccessInfo(last.context, last.path, NoOptions, World)

\* the capability an action asks for
CapabilityOf ==
    [list |-> "canRead", read |-> "canRead", write |-> "canWrite",
     rename |-> "canWrite", delete |-> "canDelete", upload |-> "canUpload",
     createFolder |-> "canCreateFolder", download |-> "canDownload",
     createShare |-> "canShare"]

\* C13: for each of the nine defined actions, authorize returns
\* allowed = (decision.canAccess and the capability flag of the action), with
\* list/read -> canRead, write/rename -> canWrite, delete -> canDelete,
\* upload -> canUpload, createFolder -> canCreateFolder, download ->
\* canDownload, createShare -> canShare; the resolving variant allows only
\* then; nothing is allowed when the decision has canAccess = FALSE.
C13_AllowedIsAccessAndCapability ==
    /\ (IsAuthorize /\ last.action \in DOMAIN CapabilityOf) =>
          /\ last.result.allowed =
                (EngineDecision.canAccess /\ EngineDecision[CapabilityOf[last.action]])
          /\ last.result.accessInfo = EngineDecision
    /\ (IsAuthorizeAndResolve /\ last.action \in DOMAIN CapabilityOf) =>
          last.result.allowed =
                /\ EngineDecision.canAccess
                /\ EngineDecision[CapabilityOf[last.action]]
                /\ last.found
    /\ (IsAuthorize \/ IsAuthorizeAndResolve) =>
          (last.result.allowed => EngineDecision.canAccess)

C13_Witness_RenameRefusedOnReadOnly ==
    /\ IsAuthorize
    /\ last.action = "rename"
    /\ EngineDecision.canAccess
    /\ EngineDecision.canRead
    /\ ~last.result.allowed

\* the reasons the engine gives for a policy denial
PolicyDenialReasons ==
    {"Unknown path space", "Guests cannot access volumes", "Authentication required",
     "You do not have access to this volume", "Path is hidden",
     "Guests cannot access personal folders", "Share token is required",
     "Share not found", "Share has expired", "Access denied",
     "Share access required", "Invalid guest session for this share",
     "Share source volume is invalid", "Share source volume not found",
     "Share source volume mismatch"}

\* C14: for every action name that is not one of the nine defined actions,
\* authorize and authorizeAndResolve return allowed = FALSE with a denial
\* reason that is no policy-denial reason, for every caller and every path.
C14_UnknownActionIsDistinct ==
    ((IsAuthorize \/ IsAuthorizeAndResolve) /\ last.action \notin DefinedActions) =>
        /\ ~last.result.allowed
        /\ last.result.accessInfo.denialReason \notin PolicyDenialReasons \cup {Null}

\* C15: a decision on a share with sharingType `users` grants access only if
\* the caller is an authenticated user and the share store holds a permission
\* grant for that user on that share; guests, anonymous callers and
\* authenticated users without a grant, the owner included, are denied.
C15_UsersShareNeedsGrant ==
    (OnShare /\ Shared.sharingType = "users" /\ Decision.canAccess) =>
        /\ Authenticated(Caller)
        /\ <<Shared.id, Caller.user.id>> \in SharePermissions

C15_Witness_GrantedUserEnters ==
    /\ OnShare
    /\ Shared.sharingType = "users"
    /\ Authenticated(Caller)
    /\ Caller.user.id # Shared.ownerId
    /\ <<Shared.id, Caller.user.id>> \in SharePermissions
    /\ Decision.canAccess

\* C16: a decision on a share with sharingType `anyone` grants access only if
\* the caller is an authenticated user or a guest whose session shareId is the
\* share's id; an anonymous caller is denied, and a guest whose session was
\* minted for another share is denied on every share, whatever its type.
C16_AnyoneShareNeedsUserOrOwnGuest ==
    OnShare =>
        /\ (Shared.sharingType = "anyone" /\ Decision.canAccess) =>
              \/ Authenticated(Caller)
              \/ GuestOnly(Caller) /\ Caller.guestSession.shareId = Shared.id
        /\ (GuestOnly(Caller) /\ Caller.guestSession.shareId # Shared.id) =>
              ~Decision.canAccess

C16_Witness_ForeignGuestDenied ==
    /\ OnShare
    /\ Shared.sharingType = "anyone"
    /\ Shared.expiresAt = {}
    /\ GuestOnly(Caller)
    /\ Caller.guestSession.shareId # Shared.id
    /\ Decision.denialReason = "Invalid guest session for this share"

\* C17: user precedence. The decision for a context that carries an
\* authenticated user together with a guest session, one bound to another
\* share included, is the decision for the same user without a guest session,
\* on every logical path and in every state of the rules, shares and volumes.
C17_UserTakesPrecedenceOverGuest ==
    (IsDecide /\ Authenticated(Caller)) =>
        Decision = getAccessInfo([user |-> Caller.user, guestSession |-> NoGuest],
                                 last.path, requestOptions(last.cached), World)

C17_Witness_UserWithStaleGuestOnVolume ==
    /\ OnVolume
    /\ Authenticated(Caller)
    /\ Caller.guestSession # NoGuest
    /\ Caller.guestSession.shareId = "s2"
    /\ Decision.canAccess

\* the assigned volume is readonly, or the rule permission of the path is `ro`
C18_EffectiveReadOnly ==
    \/ \E v \in AssignedVolumes : userVolumes[v].accessMode = "readonly"
    \/ RulePermission(Parsed.rel) = "ro"

\* C18: with user volumes enabled, the volume decision for an authenticated
\* non-admin is a denial if no user volume is assigned to the user for the
\* path, a denial if the rule permission is `hidden`, and otherwise grants
\* canRead, canShare and canDownload, with canWrite, canDelete, canUpload and
\* canCreateFolder all equal to NOT (volume readonly OR rule permission `ro`).
C18_UserVolumeDecision ==
    (OnVolume /\ featureUserVolumes /\ Authenticated(Caller) /\ ~IsAdmin(Caller)) =>
        IF AssignedVolumes = {} \/ RulePermission(Parsed.rel) = "hidden"
        THEN ~Decision.canAccess
        ELSE /\ Decision.canAccess
             /\ Decision.canRead /\ Decision.canShare /\ Decision.canDownload
             /\ Decision.canWrite = ~C18_EffectiveReadOnly
             /\ Decision.canDelete = ~C18_EffectiveReadOnly
             /\ Decision.canUpload = ~C18_EffectiveReadOnly
             /\ Decision.canCreateFolder = ~C18_EffectiveReadOnly

C18_Witness_ReadonlyVolumeCapsWrite ==
    /\ OnVolume
    /\ featureUserVolumes
    /\ Authenticated(Caller) /\ ~IsAdmin(Caller)
    /\ \E v \in AssignedVolumes : userVolumes[v].accessMode = "readonly"
    /\ RulePermission(Parsed.rel) = "rw"
    /\ Decision.canRead
    /\ ~Decision.canWrite

\* C19: for every authenticated user and every personal path the decision
\* grants full access (all seven capability flags TRUE, effectivePermission
\* `rw`), whatever the path rules are: a `hidden` or `ro` rule whose path is
\* the personal path changes nothing.
C19_PersonalSpaceIgnoresRules ==
    (OnPersonal /\ Authenticated(Caller)) =>
        /\ Decision.canAccess /\ Decision.canRead /\ AllWriteFlags(Decision)
        /\ Decision.canShare /\ Decision.canDownload
        /\ Decision.effectivePermission = "rw"
        /\ Decision.denialReason = Null

C19_Witness_HiddenRuleOnPersonalPath ==
    /\ OnPersonal
    /\ Authenticated(Caller)
    /\ RulePermission(last.path) = "hidden"
    /\ Decision.canAccess
    /\ Decision.canWrite

\* the source of a user_volume share cannot be trusted: its source path has no
\* volume id, the id names no user volume, or the volume belongs to another user
MalformedSource(share) ==
    /\ share.sourceSpace = "user_volume"
    /\ \/ share.sourcePath = <<>>
       \/ share.sourcePath[1] \notin VolumeIds
       \/ userVolumes[share.sourcePath[1]] = NoVolume
       \/ userVolumes[share.sourcePath[1]].userId # share.ownerId

\* C20: a request on the path of a user_volume share whose record is malformed
\* or inconsistent (no volume id in the source path, no user volume under that
\* id, or a user volume owned by another user than the share's owner) ends in
\* a decision value that denies access, never in an exception.
C20_MalformedShareSourceDenies ==
    (/\ last.op \in {"decide", "throw"}
     /\ ~IsTraversal(last.path)
     /\ parsePathSpace(last.path).space = "share"
     /\ parsePathSpace(last.path).shareToken \in Tokens
     /\ shares[parsePathSpace(last.path).shareToken] # NoShare
     /\ MalformedSource(shares[parsePathSpace(last.path).shareToken]))
        => IsDecide /\ ~Decision.canAccess

C20_Witness_ForeignVolumeDenied ==
    /\ OnShare
    /\ Shared.sourceSpace = "user_volume"
    /\ Shared.sourcePath # <<>>
    /\ userVolumes[Shared.sourcePath[1]] # NoVolume
    /\ userVolumes[Shared.sourcePath[1]].userId # Shared.ownerId
    /\ Decision.denialReason = "Share source volume mismatch"

\* C21: idempotence and cache transparency. With the rules, shares and user
\* volumes unchanged, two decisions of one request for the same context and
\* path are identical, and they are the decision computed without caches,
\* whether the request started without caches, with empty caches or with
\* caches already populated.
C21_DecisionsIgnoreCaches ==
    last.op = "decideTwice" =>
        /\ last.second = last.first
        /\ last.first = getAccessInfo(last.context, last.path, NoOptions, World)

C21_Witness_SecondDecisionFromFilledCache ==
    /\ last.op = "decideTwice"
    /\ last.mode = "empty"
    /\ last.caches.shareCache["t1"] # NoShare
    /\ last.caches.userVolumeCache["vol1"] # NoVolume
    /\ last.first.canAccess
    /\ last.second.canAccess

\* C22: the delete route decides through the authorization facade alone: for
\* every caller, item and state of the rules, its permission pre-check lets
\* the delete proceed exactly when the engine's decision for that caller and
\* item grants canDelete.
C22_DeletePrecheckIsEngineDecision ==
    last.op = "delete" =>
        ((last.precheck = "ok") <=>
            getAccessInfo(last.context,
                          combineRelativePath(last.item.path, <<last.item.name>>),
                          NoOptions, World).canDelete)

\* the step answers a changePassword request
ChangePasswordStep == last.op = "none" /\ last'.op = "changePassword"

\* the account of the answered changePassword request has a stored password
\* and the request's currentPassword does not match it
C23_CurrentMismatch ==
    /\ last'.userId \in DbUserIds
    /\ authMethods[last'.userId] # NoAuthMethod
    /\ \/ last'.currentPassword = Null
       \/ ~compareSync(last'.currentPassword, authMethods[last'.userId])

\* after the step, on an account that is not locked, a login succeeds with
\* the password stored before the step
C23_OldPasswordStillLogsIn ==
    \A p \in Passwords :
        (compareSync(p, authMethods[last'.userId]) /\ last'.userId \notin authLocks') =>
            attemptLocalLogin(authMethods', authLocks', last'.userId, p) = last'.userId

\* C23 as stated: every changePassword request whose currentPassword does not
\* match the stored password fails with 401 "Current password is incorrect.",
\* leaves the stored password unchanged, and afterwards a login succeeds with
\* the old password and fails with the rejected new one.
C23_Original_MismatchAlways401 ==
    [][(ChangePasswordStep /\ C23_CurrentMismatch) =>
          /\ last'.status = 401
          /\ last'.message = "Current password is incorrect."
          /\ authMethods' = authMethods
          /\ C23_OldPasswordStillLogsIn
          /\ attemptLocalLogin(authMethods', authLocks', last'.userId,
                               last'.newPassword) # last'.userId]_vars

\* C23: a changePassword request of a user with a stored password whose
\* currentPassword is a non-empty string that does not match it and whose
\* newPassword is a string of at least 6 characters fails with 401 "Current
\* password is incorrect."; a mismatching request that is malformed (missing or
\* empty currentPassword, newPassword shorter than 6) fails with 400 instead.
\* Every failed changePassword request leaves the stored passwords unchanged,
\* so that afterwards a login on an account that is not locked succeeds with
\* the old password, and fails with the rejected new one unless that is the
\* old password itself.
C23_MismatchRejectedStoreUnchanged ==
    [][ChangePasswordStep =>
          /\ C23_CurrentMismatch =>
                /\ last'.status =
                      IF /\ last'.currentPassword # Null
                         /\ StringLength(last'.currentPassword) > 0
                         /\ last'.newPassword # Null
                         /\ StringLength(last'.newPassword) >= 6
                      THEN 401 ELSE 400
                /\ last'.status = 401 =>
                      last'.message = "Current password is incorrect."
                /\ C23_OldPasswordStillLogsIn
                /\ (/\ last'.newPassword # Null
                    /\ ~compareSync(last'.newPassword, authMethods[last'.userId])) =>
                      attemptLocalLogin(authMethods', authLocks', last'.userId,
                                        last'.newPassword) # last'.userId
          /\ last'.error # Null => authMethods' = authMethods]_vars

C23_Witness_WrongCurrentPassword401 ==
    /\ last.op = "changePassword"
    /\ last.userId = root.id
    /\ last.currentPassword = "wrong-password"
    /\ last.newPassword = "newpass456"
    /\ last.status = 401
    /\ authMethods[root.id] = hashSync("secret123")
    /\ attemptLocalLogin(authMethods, authLocks, root.id, "secret123") = root.id
    /\ attemptLocalLogin(authMethods, authLocks, root.id, "newpass456") = Null

\* C24: within one directory listing request the decision for the listed
\* directory and the decisions for all of its children are evaluated against
\* one and the same rule list, also when an administrator changes the rules
\* between two awaited calls of the request.
C24_OneRuleSnapshotPerListing ==
    last.op \in {"browsing", "browse"} =>
        \A i \in 1..Len(last.rulesUsed) : last.rulesUsed[i] = last.rulesUsed[1]

\* C25: a decision on a stored share whose sourceSpace is neither `volume`
\* nor `user_volume` is denied.
C25_UnknownSourceSpaceDenied ==
    (OnShare /\ Shared.sourceSpace \notin {"volume", "user_volume"}) =>
        ~Decision.canAccess

\* the children whose stat succeeds, that are not excluded names and whose
\* decision grants access, in directory order
C26_ChildrenWithoutStatFailure ==
    SelectSeq(DirEntries,
        LAMBDA name :
            /\ last.statOf[name] = "OK"
            /\ ~ExcludedName(name)
            /\ getAccessInfo(last.context, last.path \o <<name>>,
                             NoOptions, World).canAccess)

C26_FailedCodes == {last.statOf[name] : name \in DOMAIN last.statOf} \ {"OK"}

C26_Witness_OtherCodeFailsListing ==
    /\ last.op = "list"
    /\ last.statOf["s"] = "EMFILE"
    /\ last.result.status = "throw"

\* the step answers a create-folder or a rename request
CreateFolderStep == last.op = "none" /\ last'.op = "createFolder"
RenameStep == last.op = "none" /\ last'.op = "rename"

\* authorizeAndResolve of the answered request allowed `action` on `path` and
\* resolved a location
C27_Authorized(r, path, action) ==
    LET a == authorizeAndResolve(r.context, path, action, NoOptions, World, r.found)
    IN  a.allowed /\ a.resolved # {}

C27_ParentOf(r) == normalizeRelativePath(r.path)
C27_CurrentOf(r) == combineRelativePath(C27_ParentOf(r), <<r.name>>)
C27_TargetOf(r) == combineRelativePath(C27_ParentOf(r), <<r.newName>>)

C27_TargetAllowed(r) ==
    authorizePath(r.context, C27_TargetOf(r), "write", NoOptions, World).allowed

\* the rename request reaches the authorization of its target name
C27_TargetChecked(r) ==
    /\ pathExists(fsEntries, C27_CurrentOf(r))
    /\ r.newName # Null
    /\ ensureValidName(r.newName) # Null
    /\ r.newName # r.name

\* C27: the create-folder and rename routes change the filesystem only after
\* authorization succeeded. mkdir runs only if authorizeAndResolve(parent,
\* createFolder) returned allowed with a resolved location; fs.rename runs only
\* if write was allowed on the parent, on the current item and on the target
\* name and the target does not exist yet. A request whose authorization is
\* denied fails with a Forbidden error and leaves the filesystem unchanged.
C27_FilesystemChangesOnlyWhenAuthorized ==
    [][/\ CreateFolderStep =>
             /\ fsEntries' # fsEntries =>
                   C27_Authorized(last', C27_ParentOf(last'), "createFolder")
             /\ (/\ C27_ParentOf(last') # <<>>
                 /\ ~C27_Authorized(last', C27_ParentOf(last'), "createFolder")) =>
                   /\ last'.error = "ForbiddenError"
                   /\ fsEntries' = fsEntries
       /\ RenameStep =>
             /\ fsEntries' # fsEntries =>
                   /\ C27_Authorized(last', C27_ParentOf(last'), "write")
                   /\ C27_Authorized(last', C27_CurrentOf(last'), "write")
                   /\ C27_TargetAllowed(last')
                   /\ ~pathExists(fsEntries, C27_TargetOf(last'))
             /\ (/\ last'.name \notin {Null, ""}
                 /\ \/ ~C27_Authorized(last', C27_ParentOf(last'), "write")
                    \/ ~C27_Authorized(last', C27_CurrentOf(last'), "write")
                    \/ C27_TargetChecked(last') /\ ~C27_TargetAllowed(last')) =>
                   /\ last'.error = "ForbiddenError"
                   /\ fsEntries' = fsEntries]_vars

\* a rename allowed on the parent and on the item is refused for its target
C27_Witness_RenameRefusedForTarget ==
    /\ last.op = "rename"
    /\ last.error = "ForbiddenError"
    /\ C27_Authorized(last, C27_ParentOf(last), "write")
    /\ C27_Authorized(last, C27_CurrentOf(last), "write")
    /\ C27_TargetChecked(last)
    /\ ~C27_TargetAllowed(last)
    /\ fsEntries = InitialFsEntries

C27_Witness_FolderCreated ==
    /\ last.op = "createFolder"
    /\ last.error = Null
    /\ last.context.user = alice
    /\ pathExists(fsEntries, <<"d", "n">>)

\* C28: canCreateShare returns true for every context that has an
\* authenticated user, also when a guest session is attached to it, and false
\* for every context without an authenticated user.
C28_CanCreateShareIffAuthenticated ==
    last.op = "canCreateShare" => (last.result <=> Authenticated(last.context))

\* C29: in every granted decision effectivePermission is `rw` exactly when
\* canWrite is true and `ro` exactly when canWrite is false, in every space
\* and for every caller role, and canWrite, canDelete, canUpload and
\* canCreateFolder have the same value.
C29_EffectivePermissionMatchesFlags ==
    (IsDecide /\ Decision.canAccess) =>
        /\ (Decision.effectivePermission = "rw") <=> Decision.canWrite
        /\ (Decision.effectivePermission = "ro") <=> ~Decision.canWrite
        /\ AllWriteFlags(Decision) \/ NoWriteFlags(Decision)

\* C30: a PATCH /settings request answered with 403 changes no stored setting:
\* neither a system setting nor any of the caller's user settings sent in the
\* same payload.
C30_RefusedPatchStoresNothing ==
    [][(last.op = "none" /\ last'.op = "patchSettings" /\ last'.status = 403) =>
          /\ userSettings' = userSettings
          /\ systemSettings' = systemSettings
          /\ rules' = rules]_vars

====
